---- MODULE Spec2Model ----
(***************************************************************************)
(* A model of rustbotics' identifier registry (utility/idregistry.rs), of  *)
(* the identifier-indexed directed graph built on it (math/graph/mod.rs,   *)
(* math/graph/mutators.rs) and of its breadth-first traversal              *)
(* (math/graph/traversal.rs).                                              *)
(*                                                                         *)
(* These specifications share the module:                                  *)
(*   SpecReg    one ExplicitIntegralIdentifierRegistry under acquire_id /  *)
(*              release_id;                                                *)
(*   SpecGraph  one caller-owned Graph slot under add_vertex, add_edge,    *)
(*              map_vertex and reverse_graph;                              *)
(*   SpecMutator one mutator object whose mutate is called repeatedly;     *)
(*   SpecBFS    breadth_first_traversal, one loop iteration per step, over *)
(*              graphs built with add_vertex / add_edge;                   *)
(*   SpecPath   find_path over such graphs, its traversal step by step;    *)
(*   SpecVisit  the traversal with the tests' counting visitor, and        *)
(*              find_path, also on graphs with dangling edges;             *)
(*   SpecStop   the traversal with a caller's visitor that asks to stop    *)
(*              after a given number of vertices;                          *)
(*   SpecDescriptor  equality and hashing of two descriptors.              *)
(***************************************************************************)
EXTENDS Integers, Sequences, FiniteSets, TLC

VARIABLES
    usize_max,        \* usize::MAX of the target the program is built for
    overflow_checks,  \* build profile: TRUE = arithmetic overflow panics
    \* ---- registry (SpecReg) ----
    registry,         \* the ExplicitIntegralIdentifierRegistry under test
    last,             \* the last call made on it and what it returned
    initial_size,     \* argument of new(), 0 for null_registry()
    held,             \* history: ids handed out and not yet given back
    everAcquired,     \* history: ids handed out at least once
    relStack,         \* history: ids given back and not handed out again,
                      \*          the most recently released first
    acqLog,           \* history: ids returned since construction, kept
                      \*          while no release_id has been called
    growths,          \* history: capacity growths during acqLog
    pristine,         \* history: no release_id called yet, log not full
    \* ---- graph slot (SpecGraph) ----
    graph,            \* the caller's Graph slot (&mut Graph)
    glast,            \* the last graph operation, its outcome, and the
                      \* number of vertices the slot held before it
    mutator,          \* a mutator object held by a caller (SpecMutator)
    \* ---- traversal (SpecBFS) ----
    bgraph,           \* the graph borrowed by the traversal
    script,           \* the caller's program: vertex count and (from, to) list
    pc,               \* position of breadth_first_traversal
    source,           \* its source argument
    transition_queue, \* VecDeque<(Option<(Id, Id)>, Id)>
    covered_vertices, \* HashSet<Id>
    visitor,          \* the visitor's own state
    trace,            \* history: the visitor calls made, in order
    result,           \* what the last find_path call returned
    \* ---- descriptors (SpecDescriptor) ----
    lhs,              \* a VertexDescriptor or an EdgeDescriptor
    rhs,              \* another descriptor of the same type
    cmp               \* what lhs == rhs and their hashes came to, or None

regVars   == <<registry, last, initial_size, held, everAcquired, relStack,
               acqLog, growths, pristine>>
graphVars == <<graph, glast, mutator>>
bfsVars   == <<bgraph, script, pc, source, transition_queue, covered_vertices,
               visitor, trace, result>>
descVars  == <<lhs, rhs, cmp>>
vars      == <<usize_max, overflow_checks, regVars, graphVars, bfsVars,
               descVars>>

----------------------------------------------------------------------------
(* Bounds of the model.                                                    *)

UsizeMaxReg    == 7
UsizeMaxGraph  == 31
MaxInitialSize == 2
MaxVertices    == 2
MaxEdges       == 2
MaxBfsVertices == 3
MaxBfsEdges    == 3
MaxPathVertices == 3
MaxPathEdges   == 2
MaxMutatorVertices == 2
MaxMutateCalls == 2
MaxVisitVertices == 2
MaxVisitEdges == 2
MaxDescriptorId == 2
MaxStopVertices == 2
MaxStopEdges == 2
MaxLimit == 2

----------------------------------------------------------------------------
(* utility/idregistry.rs                                                   *)

NoId == -1

Min2(a, b) == IF a <= b THEN a ELSE b

\* IdRange walked downwards (ids pushed in descending order)
IdRangeDescending(old, new) == [i \in 1..(new - old) |-> new - i]

\* old..new as the for loop walks it (empty when new <= old)
IdRange(old, new) == [i \in 1..(new - old) |-> old + i - 1]

SeqToSet(s) == {s[i] : i \in 1..Len(s)}

null_registry ==
    [all_ids |-> {}, free_ids |-> {}, free_id_alloc_chain |-> <<>>,
     min_unallocated_id |-> 0]

new(n) ==
    [all_ids |-> 0..(n - 1), free_ids |-> 0..(n - 1),
     free_id_alloc_chain |-> IdRange(0, n), min_unallocated_id |-> n]

\* min_unallocated_id + min(usize::MAX - min_unallocated_id,
\*                          min_unallocated_id + 1) - 1, in usize arithmetic
GrownWatermark(m) ==
    (m + Min2(usize_max - m, (m + 1) % (usize_max + 1)) - 1) % (usize_max + 1)

RECURSIVE acquire_id(_)
acquire_id(r) ==
    IF r.free_id_alloc_chain /= <<>>
    THEN LET new_id == Head(r.free_id_alloc_chain) IN
         [reg |-> [r EXCEPT !.free_id_alloc_chain = Tail(@),
                            !.free_ids = @ \ {new_id}],
          res |-> "Ok", id |-> new_id, grew |-> 0]
    ELSE LET old_min_unallocated_id == r.min_unallocated_id
             new_min_unallocated_id == GrownWatermark(old_min_unallocated_id)
         IN  IF old_min_unallocated_id + 1 > usize_max /\ overflow_checks
             THEN [reg |-> r, res |-> "Panic", id |-> NoId, grew |-> 0]
             ELSE IF old_min_unallocated_id = new_min_unallocated_id
             THEN [reg |-> r, res |-> "OutOfIdentifiers", id |-> NoId,
                   grew |-> 0]
             ELSE LET fresh == IdRange(old_min_unallocated_id,
                                       new_min_unallocated_id)
                      r2 == [all_ids |-> r.all_ids \cup SeqToSet(fresh),
                             free_ids |-> r.free_ids \cup SeqToSet(fresh),
                             free_id_alloc_chain |->
                                 r.free_id_alloc_chain \o fresh,
                             min_unallocated_id |-> new_min_unallocated_id]
                      again == acquire_id(r2)
                  IN  [again EXCEPT !.grew = @ + 1]

\* release_id without the free_ids test
release_id_nofreecheck(r, id) ==
    IF id \notin r.all_ids
    THEN [reg |-> r, res |-> "InvalidIdentifier"]
    ELSE [reg |-> [r EXCEPT !.free_id_alloc_chain = <<id>> \o @,
                            !.free_ids = @ \cup {id}],
          res |-> "Ok"]

\* release_id that links the id into the free-list before validating it
release_id_pushfirst(r, id) ==
    LET pushed == [r EXCEPT !.free_id_alloc_chain = <<id>> \o @] IN
    IF id \notin r.all_ids
    THEN [reg |-> pushed, res |-> "InvalidIdentifier"]
    ELSE IF id \in r.free_ids
    THEN [reg |-> pushed, res |-> "IdentiferAlreadyReleased"]
    ELSE [reg |-> [pushed EXCEPT !.free_ids = @ \cup {id}], res |-> "Ok"]

\* release_id that links the id into the free-list and leaves free_ids alone
release_id_listonly(r, id) ==
    IF id \notin r.all_ids
    THEN [reg |-> r, res |-> "InvalidIdentifier"]
    ELSE IF id \in r.free_ids
    THEN [reg |-> r, res |-> "IdentiferAlreadyReleased"]
    ELSE [reg |-> [r EXCEPT !.free_id_alloc_chain = <<id>> \o @],
          res |-> "Ok"]

\* release_id that tests all_ids after the id is already linked in
release_id_latecheck(r, id) ==
    IF id \in r.free_ids
    THEN [reg |-> r, res |-> "IdentiferAlreadyReleased"]
    ELSE LET linked == [r EXCEPT !.free_id_alloc_chain = <<id>> \o @,
                                 !.free_ids = @ \cup {id}]
         IN  IF id \notin r.all_ids
             THEN [reg |-> linked, res |-> "InvalidIdentifier"]
             ELSE [reg |-> linked, res |-> "Ok"]

\* release_id with push_back in place of push_front
release_id_pushback(r, id) ==
    IF id \notin r.all_ids
    THEN [reg |-> r, res |-> "InvalidIdentifier"]
    ELSE IF id \in r.free_ids
    THEN [reg |-> r, res |-> "IdentiferAlreadyReleased"]
    ELSE [reg |-> [r EXCEPT !.free_id_alloc_chain = @ \o <<id>>,
                            !.free_ids = @ \cup {id}],
          res |-> "Ok"]

release_id(r, id) ==
    IF id \notin r.all_ids
    THEN [reg |-> r, res |-> "InvalidIdentifier"]
    ELSE IF id \in r.free_ids
    THEN [reg |-> r, res |-> "IdentiferAlreadyReleased"]
    ELSE [reg |-> [r EXCEPT !.free_id_alloc_chain = <<id>> \o @,
                            !.free_ids = @ \cup {id}],
          res |-> "Ok"]

----------------------------------------------------------------------------
(* math/graph/elements.rs, math/graph/mod.rs                               *)

\* Option<T>: None, or Some(x) holding x
None == <<>>
Some(x) == <<x>>

\* HashMap<K, V> as a function with a finite domain
EmptyMap == [k \in {} |-> k]
MapPut(m, k, v) == [x \in DOMAIN m \cup {k} |-> IF x = k THEN v ELSE m[x]]
MapRemove(m, k) == [x \in DOMAIN m \ {k} |-> m[x]]
MapGetOr(m, k, d) == IF k \in DOMAIN m THEN m[k] ELSE d

Data == {"A", "B"}
WeightData == {"W1", "W2"}
Operators == {"flip", "toA"}

\* the FnOnce(Data) -> Data handed to map_vertex
Apply(op, d) ==
    IF op = "flip" THEN (IF d = "A" THEN "B" ELSE "A") ELSE "A"

make_vertex(id, data) == [id |-> id, data |-> data]
make_edge(id, data) == [id |-> id, data |-> data]

\* an equality that looks at the id alone
Descriptor_eq_byid(a, b) == a.id = b.id

\* #[derive(PartialEq)] on VertexDescriptor and EdgeDescriptor: the fields
\* are compared one by one
Descriptor_eq(a, b) == a.id = b.id /\ a.data = b.data

\* impl Hash for VertexDescriptor / EdgeDescriptor: what is fed to the hasher
Descriptor_hash(a) == <<a.id>>

\* GraphElement::map for VertexDescriptor
VertexMap(desc, op) == [id |-> desc.id, data |-> Apply(op, desc.data)]

Graph_new(vertex_registry, edge_registry) ==
    [vertex_id_registry |-> vertex_registry,
     edge_id_registry |-> edge_registry,
     vertices |-> EmptyMap,
     edges |-> EmptyMap,
     forward_edges |-> EmptyMap,
     backward_edges |-> EmptyMap]

\* a resolution that leaves out the entries naming a missing element
ResolveNeighbours_skipmissing(g, adjacency, vertex_id) ==
    LET all == MapGetOr(adjacency, vertex_id, <<>>)
        Found(p) == p[1] \in DOMAIN g.edges /\ p[2] \in DOMAIN g.vertices
        l == SelectSeq(all, Found)
    IN  [res |-> "Ok",
         list |-> [i \in 1..Len(l) |->
                      <<g.edges[l[i][1]], g.vertices[l[i][2]]>>]]

\* the body shared by out_neighbours_of and in_neighbours_of: resolve every
\* (edge id, vertex id) of the list, panicking on a missing element
ResolveNeighbours(g, adjacency, vertex_id) ==
    LET l == MapGetOr(adjacency, vertex_id, <<>>) IN
    IF \E i \in 1..Len(l) :
           l[i][1] \notin DOMAIN g.edges \/ l[i][2] \notin DOMAIN g.vertices
    THEN [res |-> "Panic", list |-> <<>>]
    ELSE [res |-> "Ok",
          list |-> [i \in 1..Len(l) |->
                       <<g.edges[l[i][1]], g.vertices[l[i][2]]>>]]

out_neighbours_of(g, vertex_id) ==
    ResolveNeighbours(g, g.forward_edges, vertex_id)

in_neighbours_of(g, vertex_id) ==
    ResolveNeighbours(g, g.backward_edges, vertex_id)

\* Graph::get_vertex and Graph::get_edge: the descriptor, or a panic
get_vertex(g, vertex_id) ==
    IF vertex_id \in DOMAIN g.vertices
    THEN [res |-> "Ok", value |-> g.vertices[vertex_id]]
    ELSE [res |-> "Panic", value |-> None]

get_edge(g, edge_id) ==
    IF edge_id \in DOMAIN g.edges
    THEN [res |-> "Ok", value |-> g.edges[edge_id]]
    ELSE [res |-> "Panic", value |-> None]

\* positions of the out-neighbour list whose vertex has the id vertex_to
Matches(list, vertex_to) ==
    {i \in 1..Len(list) : list[i][2].id = vertex_to}

\* get_edge_between returning the last match of the scan, not the first
get_edge_between_last(g, vertex_from, vertex_to) ==
    LET r == out_neighbours_of(g, vertex_from) IN
    IF r.res = "Panic" \/ Matches(r.list, vertex_to) = {}
    THEN [res |-> "Panic", value |-> None]
    ELSE LET i == CHOOSE k \in Matches(r.list, vertex_to) :
                      \A j \in Matches(r.list, vertex_to) : k >= j
         IN  [res |-> "Ok", value |-> r.list[i][1]]

\* Graph::get_edge_between: find() takes the first match of the scan
get_edge_between(g, vertex_from, vertex_to) ==
    LET r == out_neighbours_of(g, vertex_from) IN
    IF r.res = "Panic" \/ Matches(r.list, vertex_to) = {}
    THEN [res |-> "Panic", value |-> None]
    ELSE LET i == CHOOSE k \in Matches(r.list, vertex_to) :
                      \A j \in Matches(r.list, vertex_to) : k <= j
         IN  [res |-> "Ok", value |-> r.list[i][1]]

neighbours_of(g, vertex_id) == out_neighbours_of(g, vertex_id)

\* is_adjacent that also looks at the in-neighbours
is_adjacent_eitherway(g, vertex_from, vertex_to) ==
    LET r == out_neighbours_of(g, vertex_from)
        b == in_neighbours_of(g, vertex_from)
    IN  IF r.res = "Panic" \/ b.res = "Panic"
        THEN [res |-> "Panic", value |-> FALSE]
        ELSE [res |-> "Ok",
              value |-> \/ Matches(r.list, vertex_to) /= {}
                        \/ Matches(b.list, vertex_to) /= {}]

\* Graph::is_adjacent
is_adjacent(g, vertex_from, vertex_to) ==
    LET r == out_neighbours_of(g, vertex_from) IN
    IF r.res = "Panic"
    THEN [res |-> "Panic", value |-> FALSE]
    ELSE [res |-> "Ok", value |-> Matches(r.list, vertex_to) /= {}]

\* reverse_graph that forgets to move forward_edges into backward_edges
reverse_graph_halfswap(g) ==
    [g EXCEPT !.forward_edges = g.backward_edges]

reverse_graph(g) ==
    [vertex_id_registry |-> g.vertex_id_registry,
     edge_id_registry |-> g.edge_id_registry,
     vertices |-> g.vertices,
     edges |-> g.edges,
     forward_edges |-> g.backward_edges,
     backward_edges |-> g.forward_edges]

----------------------------------------------------------------------------
(* math/graph/mutators.rs                                                  *)

VertexAdditionMutator_new(data) ==
    [vertex_id |-> None, vertex_data |-> Some(data)]

VertexReplacementMutator_new(id, operator) ==
    [vertex_id |-> Some(id), vertex_operator |-> Some(operator)]

EdgeAdditionMutator_new(vfrom, data, vto) ==
    [edge_id |-> None, edge_desc |-> Some(<<vfrom, data, vto>>)]

\* vertex addition that draws the id from the edge registry
VertexAdditionMutator_mutate_edgeregistry(self, g) ==
    IF self.vertex_data = None
    THEN [self |-> self, res |-> "Panic", graph |-> None]
    ELSE LET data == self.vertex_data[1]
             taken == [self EXCEPT !.vertex_data = None]
             acq == acquire_id(g.edge_id_registry)
         IN  IF acq.res /= "Ok"
             THEN [self |-> taken, res |-> "Panic", graph |-> None]
             ELSE [self |-> [taken EXCEPT !.vertex_id = Some(acq.id)],
                   res |-> "Ok",
                   graph |-> Some(
                       [g EXCEPT !.edge_id_registry = acq.reg,
                                 !.vertices = MapPut(@, acq.id,
                                                 make_vertex(acq.id, data))])]

\* vertex addition that returns the graph with the registry it came with
VertexAdditionMutator_mutate_staleregistry(self, g) ==
    IF self.vertex_data = None
    THEN [self |-> self, res |-> "Panic", graph |-> None]
    ELSE LET data == self.vertex_data[1]
             taken == [self EXCEPT !.vertex_data = None]
             acq == acquire_id(g.vertex_id_registry)
         IN  IF acq.res /= "Ok"
             THEN [self |-> taken, res |-> "Panic", graph |-> None]
             ELSE [self |-> [taken EXCEPT !.vertex_id = Some(acq.id)],
                   res |-> "Ok",
                   graph |-> Some(
                       [g EXCEPT !.vertices = MapPut(@, acq.id,
                                                 make_vertex(acq.id, data))])]

\* GraphVertexAdditionMutator::mutate; a panic consumes the graph
VertexAdditionMutator_mutate(self, g) ==
    IF self.vertex_data = None
    THEN [self |-> self, res |-> "Panic", graph |-> None]
    ELSE LET data == self.vertex_data[1]
             taken == [self EXCEPT !.vertex_data = None]
             acq == acquire_id(g.vertex_id_registry)
         IN  IF acq.res /= "Ok"
             THEN [self |-> taken, res |-> "Panic", graph |-> None]
             ELSE [self |-> [taken EXCEPT !.vertex_id = Some(acq.id)],
                   res |-> "Ok",
                   graph |-> Some(
                       [g EXCEPT !.vertex_id_registry = acq.reg,
                                 !.vertices = MapPut(@, acq.id,
                                                 make_vertex(acq.id, data))])]

\* vertex replacement that removes the vertex and does not insert it again
VertexReplacementMutator_mutate_noreinsert(self, g) ==
    IF self.vertex_id = None
    THEN [self |-> self, res |-> "Panic", graph |-> None]
    ELSE LET id == self.vertex_id[1] IN
         IF id \notin DOMAIN g.vertices
         THEN [self |-> self, res |-> "Panic", graph |-> None]
         ELSE IF self.vertex_operator = None
         THEN [self |-> self, res |-> "Panic", graph |-> None]
         ELSE [self |-> [self EXCEPT !.vertex_operator = None],
               res |-> "Ok",
               graph |-> Some([g EXCEPT !.vertices = MapRemove(@, id)])]

\* vertex replacement that leaves its operator in place for another use
VertexReplacementMutator_mutate_keepoperator(self, g) ==
    IF self.vertex_id = None
    THEN [self |-> self, res |-> "Panic", graph |-> None]
    ELSE LET id == self.vertex_id[1] IN
         IF id \notin DOMAIN g.vertices
         THEN [self |-> self, res |-> "Panic", graph |-> None]
         ELSE IF self.vertex_operator = None
         THEN [self |-> self, res |-> "Panic", graph |-> None]
         ELSE LET vertex == VertexMap(g.vertices[id], self.vertex_operator[1])
              IN  [self |-> self,
                   res |-> "Ok",
                   graph |-> Some(
                       [g EXCEPT !.vertices =
                            MapPut(MapRemove(@, id), id, vertex)])]

\* GraphVertexReplacementMutator::mutate
VertexReplacementMutator_mutate(self, g) ==
    IF self.vertex_id = None
    THEN [self |-> self, res |-> "Panic", graph |-> None]
    ELSE LET id == self.vertex_id[1] IN
         IF id \notin DOMAIN g.vertices
         THEN [self |-> self, res |-> "Panic", graph |-> None]
         ELSE IF self.vertex_operator = None
         THEN [self |-> self, res |-> "Panic", graph |-> None]
         ELSE LET vertex == VertexMap(g.vertices[id], self.vertex_operator[1])
              IN  [self |-> [self EXCEPT !.vertex_operator = None],
                   res |-> "Ok",
                   graph |-> Some(
                       [g EXCEPT !.vertices =
                            MapPut(MapRemove(@, id), id, vertex)])]

\* edge addition that records the forward entry only
EdgeAdditionMutator_mutate_forwardonly(self, g) ==
    IF self.edge_desc = None
    THEN [self |-> self, res |-> "Panic", graph |-> None]
    ELSE LET vertex_from_id == self.edge_desc[1][1]
             data == self.edge_desc[1][2]
             vertex_to_id == self.edge_desc[1][3]
             taken == [self EXCEPT !.edge_desc = None]
             acq == acquire_id(g.edge_id_registry)
         IN  IF acq.res /= "Ok"
             THEN [self |-> taken, res |-> "Panic", graph |-> None]
             ELSE [self |-> [taken EXCEPT !.edge_id = Some(acq.id)],
                   res |-> "Ok",
                   graph |-> Some(
                       [g EXCEPT
                           !.edge_id_registry = acq.reg,
                           !.edges = MapPut(@, acq.id,
                                            make_edge(acq.id, data)),
                           !.forward_edges =
                               MapPut(@, vertex_from_id,
                                   Append(MapGetOr(@, vertex_from_id, <<>>),
                                          <<acq.id, vertex_to_id>>))])]

\* GraphEdgeAdditionMutator::mutate
EdgeAdditionMutator_mutate(self, g) ==
    IF self.edge_desc = None
    THEN [self |-> self, res |-> "Panic", graph |-> None]
    ELSE LET vertex_from_id == self.edge_desc[1][1]
             data == self.edge_desc[1][2]
             vertex_to_id == self.edge_desc[1][3]
             taken == [self EXCEPT !.edge_desc = None]
             acq == acquire_id(g.edge_id_registry)
         IN  IF acq.res /= "Ok"
             THEN [self |-> taken, res |-> "Panic", graph |-> None]
             ELSE [self |-> [taken EXCEPT !.edge_id = Some(acq.id)],
                   res |-> "Ok",
                   graph |-> Some(
                       [g EXCEPT
                           !.edge_id_registry = acq.reg,
                           !.edges = MapPut(@, acq.id,
                                            make_edge(acq.id, data)),
                           !.forward_edges =
                               MapPut(@, vertex_from_id,
                                   Append(MapGetOr(@, vertex_from_id, <<>>),
                                          <<acq.id, vertex_to_id>>)),
                           !.backward_edges =
                               MapPut(@, vertex_to_id,
                                   Append(MapGetOr(@, vertex_to_id, <<>>),
                                          <<acq.id, vertex_from_id>>))])]

\* the placeholder std::mem::replace leaves in the caller's slot
empty_graph == Graph_new(null_registry, null_registry)

\* add_vertex(&mut graph, data): the slot afterwards, the outcome, the id
add_vertex(g, data) ==
    LET out == VertexAdditionMutator_mutate(VertexAdditionMutator_new(data), g)
    IN  IF out.res = "Panic"
        THEN [graph |-> empty_graph, res |-> "Panic", id |-> NoId]
        ELSE IF out.self.vertex_id = None
        THEN [graph |-> out.graph[1], res |-> "Panic", id |-> NoId]
        ELSE [graph |-> out.graph[1], res |-> "Ok",
              id |-> out.self.vertex_id[1]]

\* map_vertex whose failure leaves the caller's graph in the slot
map_vertex_keepslot(g, id, operator) ==
    LET out == VertexReplacementMutator_mutate(
                   VertexReplacementMutator_new(id, operator), g)
    IN  IF out.res = "Panic"
        THEN [graph |-> g, res |-> "Panic", id |-> NoId]
        ELSE [graph |-> out.graph[1], res |-> "Ok", id |-> id]

\* map_vertex(&mut graph, id, operator)
map_vertex(g, id, operator) ==
    LET out == VertexReplacementMutator_mutate(
                   VertexReplacementMutator_new(id, operator), g)
    IN  IF out.res = "Panic"
        THEN [graph |-> empty_graph, res |-> "Panic", id |-> NoId]
        ELSE [graph |-> out.graph[1], res |-> "Ok", id |-> id]

\* add_edge that refuses endpoints that are not vertices of the graph
add_edge_validating(g, vertex_from, vertex_to, data) ==
    LET out == EdgeAdditionMutator_mutate(
                   EdgeAdditionMutator_new(vertex_from, data, vertex_to), g)
    IN  IF \/ out.res = "Panic"
           \/ vertex_from \notin DOMAIN g.vertices
           \/ vertex_to \notin DOMAIN g.vertices
        THEN [graph |-> empty_graph, res |-> "Panic", id |-> NoId]
        ELSE IF out.self.edge_id = None
        THEN [graph |-> out.graph[1], res |-> "Panic", id |-> NoId]
        ELSE [graph |-> out.graph[1], res |-> "Ok",
              id |-> out.self.edge_id[1]]

\* add_edge(&mut graph, vertex_from, vertex_to, data)
add_edge(g, vertex_from, vertex_to, data) ==
    LET out == EdgeAdditionMutator_mutate(
                   EdgeAdditionMutator_new(vertex_from, data, vertex_to), g)
    IN  IF out.res = "Panic"
        THEN [graph |-> empty_graph, res |-> "Panic", id |-> NoId]
        ELSE IF out.self.edge_id = None
        THEN [graph |-> out.graph[1], res |-> "Panic", id |-> NoId]
        ELSE [graph |-> out.graph[1], res |-> "Ok",
              id |-> out.self.edge_id[1]]

----------------------------------------------------------------------------
(* SpecReg: one registry, any sequence of acquire_id / release_id.         *)

Usize == 0..usize_max

\* the parts of the state a specification does not use
RegUnused ==
    /\ registry = null_registry
    /\ last = [op |-> "none", id |-> NoId, res |-> "Ok"]
    /\ initial_size = 0 /\ held = {} /\ everAcquired = {}
    /\ relStack = <<>> /\ acqLog = <<>> /\ growths = 0 /\ pristine = FALSE

GraphUnused == graph = 0 /\ glast = 0 /\ mutator = 0

DescUnused == lhs = 0 /\ rhs = 0 /\ cmp = 0

BfsUnused ==
    /\ bgraph = 0 /\ script = 0 /\ pc = "unused" /\ source = 0
    /\ transition_queue = <<>> /\ covered_vertices = {} /\ visitor = 0
    /\ trace = <<>> /\ result = 0

InitReg ==
    /\ DescUnused
    /\ usize_max = UsizeMaxReg
    /\ overflow_checks \in BOOLEAN
    /\ initial_size \in 0..MaxInitialSize
    /\ registry = IF initial_size = 0 THEN null_registry ELSE new(initial_size)
    /\ last = [op |-> "new", id |-> NoId, res |-> "Ok"]
    /\ held = {}
    /\ everAcquired = {}
    /\ relStack = <<>>
    /\ acqLog = <<>>
    /\ growths = 0
    /\ pristine = TRUE
    /\ GraphUnused
    /\ BfsUnused

RemoveFirst(s, x) ==
    LET idx == {i \in 1..Len(s) : s[i] = x} IN
    IF idx = {} THEN s
    ELSE LET k == CHOOSE i \in idx : \A j \in idx : i <= j IN
         SubSeq(s, 1, k - 1) \o SubSeq(s, k + 1, Len(s))

AcquireId ==
    LET out == acquire_id(registry) IN
    /\ registry' = out.reg
    /\ last' = [op |-> "acquire_id", id |-> out.id, res |-> out.res]
    /\ held' = IF out.res = "Ok" THEN held \cup {out.id} ELSE held
    /\ everAcquired' =
           IF out.res = "Ok" THEN everAcquired \cup {out.id} ELSE everAcquired
    /\ relStack' =
           IF out.res = "Ok" THEN RemoveFirst(relStack, out.id) ELSE relStack
    /\ IF pristine
       THEN /\ acqLog' = Append(acqLog, out.id)
            /\ growths' = growths + out.grew
            /\ pristine' = (Len(acqLog) + 1 < initial_size + 1)
       ELSE UNCHANGED <<acqLog, growths, pristine>>
    /\ UNCHANGED <<usize_max, overflow_checks, descVars, initial_size, graphVars,
                   bfsVars>>

ReleaseId(id) ==
    LET out == release_id(registry, id) IN
    /\ registry' = out.reg
    /\ last' = [op |-> "release_id", id |-> id, res |-> out.res]
    /\ held' = IF out.res = "Ok" THEN held \ {id} ELSE held
    /\ relStack' = IF out.res = "Ok" THEN <<id>> \o relStack ELSE relStack
    /\ pristine' = FALSE
    /\ UNCHANGED <<everAcquired, acqLog, growths>>
    /\ UNCHANGED <<usize_max, overflow_checks, descVars, initial_size, graphVars,
                   bfsVars>>

NextReg ==
    \/ AcquireId
    \/ \E id \in Usize : ReleaseId(id)

SpecReg == InitReg /\ [][NextReg]_vars

----------------------------------------------------------------------------
(* SpecGraph: one caller-owned Graph slot under the public mutating        *)
(* operations, called with any argument ids.  A panicking call leaves the  *)
(* slot as the call left it and the caller goes on.                        *)

\* ids a caller may pass to add_edge and map_vertex
IdArgs == {0, 1, 2}

InitGraph ==
    /\ DescUnused
    /\ usize_max = UsizeMaxGraph
    /\ overflow_checks = TRUE
    /\ graph \in {Graph_new(null_registry, null_registry),
                  Graph_new(new(1), new(MaxInitialSize))}
    /\ glast = [op |-> "new", res |-> "Ok", id |-> NoId, args |-> <<>>,
                before |-> 0]
    /\ mutator = 0
    /\ RegUnused
    /\ BfsUnused

AddVertex(data) ==
    /\ Cardinality(DOMAIN graph.vertices) < MaxVertices
    /\ LET out == add_vertex(graph, data) IN
       /\ graph' = out.graph
       /\ glast' = [op |-> "add_vertex", res |-> out.res, id |-> out.id,
                    args |-> <<data>>,
                    before |-> Cardinality(DOMAIN graph.vertices)]
    /\ UNCHANGED <<usize_max, overflow_checks, descVars, regVars, mutator, bfsVars>>

AddEdge(vertex_from, vertex_to, data) ==
    /\ Cardinality(DOMAIN graph.edges) < MaxEdges
    /\ LET out == add_edge(graph, vertex_from, vertex_to, data) IN
       /\ graph' = out.graph
       /\ glast' = [op |-> "add_edge", res |-> out.res, id |-> out.id,
                    args |-> <<vertex_from, vertex_to, data>>,
                    before |-> Cardinality(DOMAIN graph.vertices)]
    /\ UNCHANGED <<usize_max, overflow_checks, descVars, regVars, mutator, bfsVars>>

MapVertex(id, operator) ==
    /\ LET out == map_vertex(graph, id, operator) IN
       /\ graph' = out.graph
       /\ glast' = [op |-> "map_vertex", res |-> out.res, id |-> out.id,
                    args |-> <<id, operator>>,
                    before |-> Cardinality(DOMAIN graph.vertices)]
    /\ UNCHANGED <<usize_max, overflow_checks, descVars, regVars, mutator, bfsVars>>

ReverseGraph ==
    /\ graph' = reverse_graph(graph)
    /\ glast' = [op |-> "reverse_graph", res |-> "Ok", id |-> NoId,
                 args |-> <<>>,
                 before |-> Cardinality(DOMAIN graph.vertices)]
    /\ UNCHANGED <<usize_max, overflow_checks, descVars, regVars, mutator, bfsVars>>

NextGraph ==
    \/ \E data \in Data : AddVertex(data)
    \/ \E vertex_from \in IdArgs, vertex_to \in IdArgs, data \in WeightData :
           AddEdge(vertex_from, vertex_to, data)
    \/ \E id \in IdArgs, operator \in Operators : MapVertex(id, operator)
    \/ ReverseGraph

SpecGraph == InitGraph /\ [][NextGraph]_vars

----------------------------------------------------------------------------
(* SpecMutator: code of the mutators module that builds one mutator and    *)
(* calls mutate on it more than once, handing it the graph it holds, a     *)
(* graph fresh from Graph::new, or an empty graph with null registries.  A *)
(* mutate that panics has consumed the graph it was given, and unwinds     *)
(* through the caller, which drops the mutator.                            *)

FreshMutators ==
    {[kind |-> "VertexAddition", obj |-> VertexAdditionMutator_new(d)] :
         d \in Data}
    \cup {[kind |-> "VertexReplacement",
           obj |-> VertexReplacementMutator_new(a[1], a[2])] :
              a \in IdArgs \X Operators}
    \cup {[kind |-> "EdgeAddition",
           obj |-> EdgeAdditionMutator_new(a[1], a[2], a[3])] :
              a \in IdArgs \X WeightData \X IdArgs}

\* GraphMutator::mutate, dispatched on the mutator's type
Mutate(m, g) ==
    CASE m.kind = "VertexAddition" -> VertexAdditionMutator_mutate(m.obj, g)
      [] m.kind = "VertexReplacement" ->
             VertexReplacementMutator_mutate(m.obj, g)
      [] m.kind = "EdgeAddition" -> EdgeAdditionMutator_mutate(m.obj, g)

InitMutator ==
    /\ DescUnused
    /\ usize_max = UsizeMaxGraph
    /\ overflow_checks = TRUE
    /\ graph = Some(Graph_new(new(1), new(1)))
    /\ mutator \in {Some(m) : m \in FreshMutators}
    /\ glast = [op |-> "new", res |-> "Ok", calls |-> 0, input |-> "none",
                kind |-> mutator[1].kind]
    /\ RegUnused
    /\ BfsUnused

\* the caller adds a vertex to the graph it holds
HolderAddVertex(data) ==
    /\ graph /= None
    /\ Cardinality(DOMAIN graph[1].vertices) < MaxMutatorVertices
    /\ graph' = Some(add_vertex(graph[1], data).graph)
    /\ glast' = [glast EXCEPT !.op = "add_vertex", !.res = "Ok"]
    /\ UNCHANGED <<usize_max, overflow_checks, descVars, regVars, mutator, bfsVars>>

\* the graph the caller hands to mutate
InputGraph(input) ==
    CASE input = "held" -> graph[1]
      [] input = "fresh" -> Graph_new(new(1), new(1))
      [] input = "empty" -> empty_graph

\* mutator.mutate(g), and the caller keeping the returned graph
MutateCall(input) ==
    /\ mutator /= None
    /\ graph /= None
    /\ glast.calls < MaxMutateCalls
    /\ LET out == Mutate(mutator[1], InputGraph(input)) IN
       /\ glast' = [op |-> "mutate", res |-> out.res,
                    calls |-> glast.calls + 1, input |-> input,
                    kind |-> mutator[1].kind]
       /\ IF out.res = "Ok"
          THEN /\ graph' = out.graph
               /\ mutator' = Some([mutator[1] EXCEPT !.obj = out.self])
          ELSE /\ graph' = None
               /\ mutator' = None
    /\ UNCHANGED <<usize_max, overflow_checks, descVars, regVars, bfsVars>>

NextMutator ==
    \/ \E data \in Data : HolderAddVertex(data)
    \/ \E input \in {"held", "fresh", "empty"} : MutateCall(input)

SpecMutator == InitMutator /\ [][NextMutator]_vars

----------------------------------------------------------------------------
(* math/graph/traversal.rs, and the VertexCollector of math/graph/mod.rs   *)

\* VertexCollector::new(|_| true)
VertexCollector_new == [kind |-> "VertexCollector", vertices |-> <<>>]

\* math/graph/tests.rs: CountingGraphVisitor, as the tests construct it
CountingGraphVisitor_new ==
    [kind |-> "CountingGraphVisitor", vertex_count |-> 0, edge_count |-> 0]

CountingGraphVisitor_reset(self) ==
    [self EXCEPT !.vertex_count = 0, !.edge_count = 0]

CountingGraphVisitor_visit_vertex(self) ==
    [self EXCEPT !.vertex_count = @ + 1]

CountingGraphVisitor_visit_edge(self) ==
    [self EXCEPT !.edge_count = @ + 1]

\* math/graph/mod.rs, trait GraphVisitor, as a caller may implement it: a
\* visitor that asks to stop once it has been shown limit vertices since its
\* reset (limit 0: from the reset on)
BoundedVisitor_new(limit) ==
    [kind |-> "BoundedVisitor", limit |-> limit, seen |-> 0]

BoundedVisitor_reset(self) == [self EXCEPT !.seen = 0]

BoundedVisitor_visit_vertex(self) == [self EXCEPT !.seen = @ + 1]

BoundedVisitor_visit_edge(self) == self

BoundedVisitor_should_terminate(self) == self.seen >= self.limit

\* math/graph/pathfinding.rs: a Walk and the WalkBuilder visitor
Walk(vertex_list, edge_list) == [vertices |-> vertex_list, edges |-> edge_list]

WalkBuilder_new(initial_vertex_id, final_vertex_id) ==
    [kind |-> "WalkBuilder",
     initial_vertex_id |-> initial_vertex_id,
     final_vertex_id |-> final_vertex_id,
     current_edge |-> None,
     back_edge_lookup |-> EmptyMap,
     vertex_lookup |-> EmptyMap,
     path |-> None]

\* the loop of build_path with push_back in place of push_front
RECURSIVE build_path_loop_pushback(_, _, _, _)
build_path_loop_pushback(self, current_vertex, vertex_list, edge_list) ==
    LET vl == Append(vertex_list, current_vertex) IN
    IF current_vertex.id = self.initial_vertex_id
    THEN [res |-> "Ok", walk |-> Walk(vl, edge_list)]
    ELSE IF current_vertex.id \notin DOMAIN self.back_edge_lookup
    THEN [res |-> "Panic", walk |-> Walk(vl, edge_list)]
    ELSE LET back_edge == self.back_edge_lookup[current_vertex.id]
             el == Append(edge_list, back_edge[2])
         IN  IF back_edge[1] \notin DOMAIN self.vertex_lookup
             THEN [res |-> "Panic", walk |-> Walk(vl, el)]
             ELSE build_path_loop_pushback(self,
                      self.vertex_lookup[back_edge[1]], vl, el)

\* the loop of build_path, entered with the vertex to prepend next
RECURSIVE build_path_loop(_, _, _, _)
build_path_loop(self, current_vertex, vertex_list, edge_list) ==
    LET vl == <<current_vertex>> \o vertex_list IN
    IF current_vertex.id = self.initial_vertex_id
    THEN [res |-> "Ok", walk |-> Walk(vl, edge_list)]
    ELSE IF current_vertex.id \notin DOMAIN self.back_edge_lookup
    THEN [res |-> "Panic", walk |-> Walk(vl, edge_list)]
    ELSE LET back_edge == self.back_edge_lookup[current_vertex.id]
             el == <<back_edge[2]>> \o edge_list
         IN  IF back_edge[1] \notin DOMAIN self.vertex_lookup
             THEN [res |-> "Panic", walk |-> Walk(vl, el)]
             ELSE build_path_loop(self, self.vertex_lookup[back_edge[1]],
                                  vl, el)

build_path(self) ==
    IF self.final_vertex_id \notin DOMAIN self.vertex_lookup
    THEN [res |-> "Panic", walk |-> Walk(<<>>, <<>>)]
    ELSE build_path_loop(self, self.vertex_lookup[self.final_vertex_id],
                         <<>>, <<>>)

WalkBuilder_reset(self) ==
    [self EXCEPT !.current_edge = None,
                 !.back_edge_lookup = EmptyMap,
                 !.vertex_lookup = EmptyMap,
                 !.path = None]

\* visit_vertex building the path only for a vertex reached over an edge
WalkBuilder_visit_vertex_needsedge(self, vertex) ==
    LET id == vertex.id
        s1 == [self EXCEPT
                  !.vertex_lookup = MapPut(@, id, vertex),
                  !.current_edge = None,
                  !.back_edge_lookup =
                      IF self.current_edge = None THEN @
                      ELSE MapPut(@, id, self.current_edge[1])]
        built == build_path(s1)
    IN  IF id = self.final_vertex_id /\ self.current_edge /= None
        THEN [res |-> built.res,
              self |-> IF built.res = "Ok"
                       THEN [s1 EXCEPT !.path = Some(built.walk)] ELSE s1]
        ELSE [res |-> "Ok", self |-> s1]

\* visit_vertex building the path at the initial vertex, not the final one
WalkBuilder_visit_vertex_atinitial(self, vertex) ==
    LET id == vertex.id
        s1 == [self EXCEPT
                  !.vertex_lookup = MapPut(@, id, vertex),
                  !.current_edge = None,
                  !.back_edge_lookup =
                      IF self.current_edge = None THEN @
                      ELSE MapPut(@, id, self.current_edge[1])]
        built == build_path([s1 EXCEPT !.final_vertex_id = id])
    IN  IF id = self.initial_vertex_id
        THEN [res |-> built.res,
              self |-> IF built.res = "Ok"
                       THEN [s1 EXCEPT !.path = Some(built.walk)] ELSE s1]
        ELSE [res |-> "Ok", self |-> s1]

WalkBuilder_visit_vertex(self, vertex) ==
    LET id == vertex.id
        s1 == [self EXCEPT
                  !.vertex_lookup = MapPut(@, id, vertex),
                  !.current_edge = None,
                  !.back_edge_lookup =
                      IF self.current_edge = None THEN @
                      ELSE MapPut(@, id, self.current_edge[1])]
        built == build_path(s1)
    IN  IF id = self.final_vertex_id
        THEN [res |-> built.res,
              self |-> IF built.res = "Ok"
                       THEN [s1 EXCEPT !.path = Some(built.walk)] ELSE s1]
        ELSE [res |-> "Ok", self |-> s1]

\* visit_edge keeping the walk's initial vertex as the edge's origin
WalkBuilder_visit_edge_fromsource(self, vertex_from_id, edge, vertex_to_id) ==
    [self EXCEPT !.current_edge =
                     Some(<<self.initial_vertex_id, edge, vertex_to_id>>)]

WalkBuilder_visit_edge(self, vertex_from_id, edge, vertex_to_id) ==
    [self EXCEPT !.current_edge = Some(<<vertex_from_id, edge, vertex_to_id>>)]

\* a should_terminate that never asks to stop
WalkBuilder_should_terminate_never(self) == FALSE

WalkBuilder_should_terminate(self) == self.path /= None

\* the GraphVisitor calls, dispatched on the visitor's type
VisitorReset(v) ==
    IF v.kind = "WalkBuilder" THEN WalkBuilder_reset(v)
    ELSE IF v.kind = "CountingGraphVisitor" THEN CountingGraphVisitor_reset(v)
    ELSE IF v.kind = "BoundedVisitor" THEN BoundedVisitor_reset(v)
    ELSE [v EXCEPT !.vertices = <<>>]

VisitVertex(v, vertex) ==
    IF v.kind = "WalkBuilder" THEN WalkBuilder_visit_vertex(v, vertex)
    ELSE IF v.kind = "CountingGraphVisitor"
    THEN [res |-> "Ok", self |-> CountingGraphVisitor_visit_vertex(v)]
    ELSE IF v.kind = "BoundedVisitor"
    THEN [res |-> "Ok", self |-> BoundedVisitor_visit_vertex(v)]
    ELSE [res |-> "Ok", self |-> [v EXCEPT !.vertices = Append(@, vertex.id)]]

VisitEdge(v, vertex_from, edge, vertex_to) ==
    IF v.kind = "WalkBuilder"
    THEN WalkBuilder_visit_edge(v, vertex_from, edge, vertex_to)
    ELSE IF v.kind = "CountingGraphVisitor"
    THEN CountingGraphVisitor_visit_edge(v)
    ELSE IF v.kind = "BoundedVisitor" THEN BoundedVisitor_visit_edge(v)
    ELSE v

\* CountingGraphVisitor declares no should_terminate of its own; its tests
\* expect whole components to be counted, so it shares the collector's answer
ShouldTerminate(v) ==
    IF v.kind = "WalkBuilder" THEN WalkBuilder_should_terminate(v)
    ELSE IF v.kind = "BoundedVisitor" THEN BoundedVisitor_should_terminate(v)
    ELSE FALSE

\* the for loop over forward_edges[vertex_id] without covered_vertices.insert
RECURSIVE EnqueueNeighbours_nocover(_, _, _, _)
EnqueueNeighbours_nocover(l, vertex_id, queue, covered) ==
    IF l = <<>>
    THEN [queue |-> queue, covered |-> covered]
    ELSE LET new_transition ==
                 [edge |-> Some(<<vertex_id, Head(l)[1]>>),
                  vertex |-> Head(l)[2]]
         IN  IF Head(l)[2] \notin covered
             THEN EnqueueNeighbours_nocover(Tail(l), vertex_id,
                      Append(queue, new_transition), covered)
             ELSE EnqueueNeighbours_nocover(Tail(l), vertex_id, queue,
                                            covered)

\* the for loop over forward_edges[vertex_id] with push_front
RECURSIVE EnqueueNeighbours_pushfront(_, _, _, _)
EnqueueNeighbours_pushfront(l, vertex_id, queue, covered) ==
    IF l = <<>>
    THEN [queue |-> queue, covered |-> covered]
    ELSE LET new_transition ==
                 [edge |-> Some(<<vertex_id, Head(l)[1]>>),
                  vertex |-> Head(l)[2]]
         IN  IF Head(l)[2] \notin covered
             THEN EnqueueNeighbours_pushfront(Tail(l), vertex_id,
                      <<new_transition>> \o queue,
                      covered \cup {Head(l)[2]})
             ELSE EnqueueNeighbours_pushfront(Tail(l), vertex_id, queue,
                                              covered)

\* the for loop naming the target, not vertex_id, as the transition's origin
RECURSIVE EnqueueNeighbours_wrongfrom(_, _, _, _)
EnqueueNeighbours_wrongfrom(l, vertex_id, queue, covered) ==
    IF l = <<>>
    THEN [queue |-> queue, covered |-> covered]
    ELSE LET new_transition ==
                 [edge |-> Some(<<Head(l)[2], Head(l)[1]>>),
                  vertex |-> Head(l)[2]]
         IN  IF Head(l)[2] \notin covered
             THEN EnqueueNeighbours_wrongfrom(Tail(l), vertex_id,
                      Append(queue, new_transition),
                      covered \cup {Head(l)[2]})
             ELSE EnqueueNeighbours_wrongfrom(Tail(l), vertex_id, queue,
                                              covered)

\* the for loop testing vertex_id, not the target, against covered_vertices
RECURSIVE EnqueueNeighbours_checksorigin(_, _, _, _)
EnqueueNeighbours_checksorigin(l, vertex_id, queue, covered) ==
    IF l = <<>>
    THEN [queue |-> queue, covered |-> covered]
    ELSE LET new_transition ==
                 [edge |-> Some(<<vertex_id, Head(l)[1]>>),
                  vertex |-> Head(l)[2]]
         IN  IF vertex_id \notin covered
             THEN EnqueueNeighbours_checksorigin(Tail(l), vertex_id,
                      Append(queue, new_transition),
                      covered \cup {Head(l)[2]})
             ELSE EnqueueNeighbours_checksorigin(Tail(l), vertex_id, queue,
                                                 covered)

\* the for loop over forward_edges[vertex_id]
RECURSIVE EnqueueNeighbours(_, _, _, _)
EnqueueNeighbours(l, vertex_id, queue, covered) ==
    IF l = <<>>
    THEN [queue |-> queue, covered |-> covered]
    ELSE LET new_transition ==
                 [edge |-> Some(<<vertex_id, Head(l)[1]>>),
                  vertex |-> Head(l)[2]]
         IN  IF Head(l)[2] \notin covered
             THEN EnqueueNeighbours(Tail(l), vertex_id,
                      Append(queue, new_transition),
                      covered \cup {Head(l)[2]})
             ELSE EnqueueNeighbours(Tail(l), vertex_id, queue, covered)

----------------------------------------------------------------------------
(* SpecBFS: breadth_first_traversal over graphs built with add_vertex and  *)
(* add_edge, one iteration of the while loop per step.                     *)

\* graph_nontrivial_bfs: v1..v5 get the ids 0..4
TestEdges ==
    << <<0, 1>>, <<0, 2>>, <<0, 3>>,
       <<2, 1>>, <<2, 4>>, <<2, 3>>,
       <<3, 4>>, <<3, 0>>,
       <<1, 4>>,
       <<4, 1>> >>

EdgeLists(nv) ==
    UNION {[1..k -> (0..(nv - 1)) \X (0..(nv - 1))] : k \in 0..MaxBfsEdges}

\* the caller's program: Graph::new, nv add_vertex calls, one add_edge call
\* per entry of edges with the payload of the same index, then traversals
InitBFS ==
    /\ DescUnused
    /\ usize_max = UsizeMaxGraph
    /\ overflow_checks = TRUE
    /\ \/ /\ script = [nv |-> 5, edges |-> TestEdges,
                       weights |-> [i \in 1..Len(TestEdges) |-> "W1"]]
          /\ bgraph = Graph_new(new(6), new(12))
       \/ \E nv \in 1..MaxBfsVertices : \E es \in EdgeLists(nv) :
              /\ script = [nv |-> nv, edges |-> es,
                           weights |-> [i \in 1..Len(es) |-> "W1"]]
              /\ bgraph = Graph_new(new(1), new(1))
    /\ pc = "build"
    /\ source = 0
    /\ transition_queue = <<>>
    /\ covered_vertices = {}
    /\ visitor = VertexCollector_new
    /\ trace = <<>>
    /\ result = None
    /\ RegUnused
    /\ GraphUnused

\* the next add_vertex of the caller's program
BuildVertex ==
    /\ pc = "build"
    /\ Cardinality(DOMAIN bgraph.vertices) < script.nv
    /\ bgraph' = add_vertex(bgraph, "A").graph
    /\ UNCHANGED <<usize_max, overflow_checks, descVars, regVars, graphVars, script, pc,
                   source, transition_queue, covered_vertices, visitor, trace,
                   result>>

\* the next add_edge of the caller's program; the last one ends the building
BuildEdge ==
    /\ pc = "build"
    /\ Cardinality(DOMAIN bgraph.vertices) = script.nv
    /\ LET k == Cardinality(DOMAIN bgraph.edges) IN
       IF k < Len(script.edges)
       THEN /\ bgraph' = add_edge(bgraph, script.edges[k + 1][1],
                                  script.edges[k + 1][2],
                                  script.weights[k + 1]).graph
            /\ pc' = pc
       ELSE /\ pc' = "idle"
            /\ UNCHANGED bgraph
    /\ UNCHANGED <<usize_max, overflow_checks, descVars, regVars, graphVars, script,
                   source, transition_queue, covered_vertices, visitor, trace,
                   result>>

\* a call that may begin once the previous call is over
CallOver ==
    \/ pc \in {"idle", "returned", "panicked"}
    \/ pc = "done" /\ visitor.kind /= "WalkBuilder"

\* the call with visitor.reset() moved in front of the assert
StartTraversal_resetfirst(src) ==
    /\ CallOver
    /\ visitor.kind /= "WalkBuilder"
    /\ source' = src
    /\ visitor' = VisitorReset(visitor)
    /\ trace' = <<[call |-> "reset"]>>
    /\ IF src \notin DOMAIN bgraph.vertices
       THEN /\ pc' = "panicked"
            /\ transition_queue' = <<>>
            /\ covered_vertices' = {}
       ELSE /\ pc' = "loop"
            /\ transition_queue' = <<[edge |-> None, vertex |-> src]>>
            /\ covered_vertices' = {src}
    /\ UNCHANGED <<usize_max, overflow_checks, descVars, regVars, graphVars, bgraph,
                   script, result>>

\* the call without covered_vertices.insert(source)
StartTraversal_sourceuncovered(src) ==
    /\ CallOver
    /\ visitor.kind /= "WalkBuilder"
    /\ source' = src
    /\ IF src \notin DOMAIN bgraph.vertices
       THEN /\ pc' = "panicked"
            /\ transition_queue' = <<>>
            /\ covered_vertices' = {}
            /\ trace' = <<>>
            /\ UNCHANGED visitor
       ELSE /\ pc' = "loop"
            /\ visitor' = VisitorReset(visitor)
            /\ trace' = <<[call |-> "reset"]>>
            /\ transition_queue' = <<[edge |-> None, vertex |-> src]>>
            /\ covered_vertices' = {}
    /\ UNCHANGED <<usize_max, overflow_checks, descVars, regVars, graphVars, bgraph,
                   script, result>>

\* the call without visitor.reset()
StartTraversal_noreset(src) ==
    /\ CallOver
    /\ visitor.kind /= "WalkBuilder"
    /\ source' = src
    /\ IF src \notin DOMAIN bgraph.vertices
       THEN /\ pc' = "panicked"
            /\ transition_queue' = <<>>
            /\ covered_vertices' = {}
            /\ trace' = <<>>
            /\ UNCHANGED visitor
       ELSE /\ pc' = "loop"
            /\ visitor' = visitor
            /\ trace' = <<>>
            /\ transition_queue' = <<[edge |-> None, vertex |-> src]>>
            /\ covered_vertices' = {src}
    /\ UNCHANGED <<usize_max, overflow_checks, descVars, regVars, graphVars, bgraph,
                   script, result>>

\* the call up to the while loop: the assert, reset, the first transition;
\* the caller passes a visitor of its own (a WalkBuilder is find_path's)
StartTraversal(src) ==
    /\ CallOver
    /\ visitor.kind /= "WalkBuilder"
    /\ source' = src
    /\ IF src \notin DOMAIN bgraph.vertices
       THEN /\ pc' = "panicked"
            /\ transition_queue' = <<>>
            /\ covered_vertices' = {}
            /\ trace' = <<>>
            /\ UNCHANGED visitor
       ELSE /\ pc' = "loop"
            /\ visitor' = VisitorReset(visitor)
            /\ trace' = <<[call |-> "reset"]>>
            /\ transition_queue' = <<[edge |-> None, vertex |-> src]>>
            /\ covered_vertices' = {src}
    /\ UNCHANGED <<usize_max, overflow_checks, descVars, regVars, graphVars, bgraph,
                   script, result>>

\* a loop that handles the source's transition before it first asks the
\* visitor
LoopCondition_sourceunpolled(v, queue) ==
    /\ queue /= <<>>
    /\ ~ShouldTerminate(v) \/ Head(queue).edge = None

\* a loop that goes on until the queue is empty, whatever the visitor says
LoopCondition_queueonly(v, queue) == queue /= <<>>

\* while !visitor.should_terminate(), with the break on an empty queue
LoopCondition(v, queue) == ~ShouldTerminate(v) /\ queue /= <<>>

\* one evaluation of the loop condition and, if it holds, of the body
LoopIteration ==
    /\ pc = "loop"
    /\ IF ~LoopCondition(visitor, transition_queue)
       THEN /\ pc' = "done"
            /\ UNCHANGED <<transition_queue, covered_vertices, visitor, trace>>
       ELSE LET transition == Head(transition_queue)
                vertex_id == transition.vertex
            IN  IF \/ vertex_id \notin DOMAIN bgraph.vertices
                   \/ /\ transition.edge /= None
                      /\ transition.edge[1][2] \notin DOMAIN bgraph.edges
                THEN /\ pc' = "panicked"
                     /\ transition_queue' = Tail(transition_queue)
                     /\ UNCHANGED <<covered_vertices, visitor, trace>>
                ELSE LET vertex == bgraph.vertices[vertex_id]
                         hasEdge == transition.edge /= None
                         v1 == IF hasEdge
                               THEN VisitEdge(visitor, transition.edge[1][1],
                                        bgraph.edges[transition.edge[1][2]],
                                        vertex_id)
                               ELSE visitor
                         t1 == IF hasEdge
                               THEN Append(trace,
                                        [call |-> "visit_edge",
                                         from |-> transition.edge[1][1],
                                         edge |-> transition.edge[1][2],
                                         to |-> vertex_id])
                               ELSE trace
                         visited == VisitVertex(v1, vertex)
                         enq == EnqueueNeighbours(
                                    MapGetOr(bgraph.forward_edges, vertex_id,
                                             <<>>),
                                    vertex_id, Tail(transition_queue),
                                    covered_vertices)
                     IN  /\ visitor' = visited.self
                         /\ trace' = Append(t1, [call |-> "visit_vertex",
                                                 vertex |-> vertex_id])
                         /\ IF visited.res = "Ok"
                            THEN /\ pc' = "loop"
                                 /\ transition_queue' = enq.queue
                                 /\ covered_vertices' = enq.covered
                            ELSE /\ pc' = "panicked"
                                 /\ transition_queue' = Tail(transition_queue)
                                 /\ UNCHANGED covered_vertices
    /\ UNCHANGED <<usize_max, overflow_checks, descVars, regVars, graphVars, bgraph,
                   script, source, result>>

NextBFS ==
    \/ BuildVertex
    \/ BuildEdge
    \/ \E src \in 0..Cardinality(DOMAIN bgraph.vertices) : StartTraversal(src)
    \/ LoopIteration

SpecBFS == InitBFS /\ [][NextBFS]_vars

----------------------------------------------------------------------------
(* SpecPath: find_path over graphs built with add_vertex and add_edge.  A   *)
(* call is the two asserts and the start of the traversal, the iterations  *)
(* of the traversal's loop, and the return of the builder's path.          *)

PathEdgeLists(nv) ==
    UNION {[1..k -> (0..(nv - 1)) \X (0..(nv - 1))] : k \in 0..MaxPathEdges}

\* edge payloads of a program: all equal, or alternating
WeightPatterns(k) ==
    {[i \in 1..k |-> "W1"],
     [i \in 1..k |-> IF i % 2 = 1 THEN "W2" ELSE "W1"]}

InitPath ==
    /\ DescUnused
    /\ usize_max = UsizeMaxGraph
    /\ overflow_checks = TRUE
    /\ \/ \E ws \in WeightPatterns(Len(TestEdges)) :
              /\ script = [nv |-> 5, edges |-> TestEdges, weights |-> ws]
              /\ bgraph = Graph_new(new(6), new(12))
       \/ \E nv \in 1..MaxPathVertices : \E es \in PathEdgeLists(nv) :
          \E ws \in WeightPatterns(Len(es)) :
              /\ script = [nv |-> nv, edges |-> es, weights |-> ws]
              /\ bgraph = Graph_new(new(1), new(1))
    /\ pc = "build"
    /\ source = 0
    /\ transition_queue = <<>>
    /\ covered_vertices = {}
    /\ visitor = WalkBuilder_new(0, 0)
    /\ trace = <<>>
    /\ result = None
    /\ RegUnused
    /\ GraphUnused

\* find_path up to the traversal's while loop: the two asserts,
\* WalkBuilder::new, and the traversal's assert, reset and first transition
FindPath(vertex_from_id, vertex_to_id) ==
    /\ CallOver
    /\ source' = vertex_from_id
    /\ result' = None
    /\ IF \/ vertex_from_id \notin DOMAIN bgraph.vertices
          \/ vertex_to_id \notin DOMAIN bgraph.vertices
       THEN /\ pc' = "panicked"
            /\ transition_queue' = <<>>
            /\ covered_vertices' = {}
            /\ trace' = <<>>
            /\ visitor' = WalkBuilder_new(vertex_from_id, vertex_to_id)
       ELSE /\ pc' = "loop"
            /\ visitor' = VisitorReset(WalkBuilder_new(vertex_from_id,
                                                       vertex_to_id))
            /\ trace' = <<[call |-> "reset"]>>
            /\ transition_queue' = <<[edge |-> None, vertex |-> vertex_from_id]>>
            /\ covered_vertices' = {vertex_from_id}
    /\ UNCHANGED <<usize_max, overflow_checks, descVars, regVars, graphVars, bgraph,
                   script>>

\* find_path after the traversal has returned: walk_builder.path.take()
FindPathReturn ==
    /\ pc = "done"
    /\ visitor.kind = "WalkBuilder"
    /\ pc' = "returned"
    /\ result' = visitor.path
    /\ visitor' = [visitor EXCEPT !.path = None]
    /\ UNCHANGED <<usize_max, overflow_checks, descVars, regVars, graphVars, bgraph,
                   script, source, transition_queue, covered_vertices, trace>>

NextPath ==
    \/ BuildVertex
    \/ BuildEdge
    \/ \E a, b \in 0..Cardinality(DOMAIN bgraph.vertices) : FindPath(a, b)
    \/ LoopIteration
    \/ FindPathReturn

SpecPath == InitPath /\ [][NextPath]_vars

----------------------------------------------------------------------------
(* SpecDescriptor: two descriptors of the same type, compared and hashed;  *)
(* with_data and map replace the payload of the first.                     *)

VertexDescriptors ==
    {make_vertex(id, d) : id \in 0..MaxDescriptorId, d \in Data}

EdgeDescriptors ==
    {make_edge(id, w) : id \in 0..MaxDescriptorId, w \in WeightData}

InitDescriptor ==
    /\ usize_max = UsizeMaxGraph
    /\ overflow_checks = TRUE
    /\ \/ lhs \in VertexDescriptors /\ rhs \in VertexDescriptors
       \/ lhs \in EdgeDescriptors /\ rhs \in EdgeDescriptors
    /\ cmp = None
    /\ RegUnused
    /\ GraphUnused
    /\ BfsUnused

\* lhs == rhs, and hashing both with hashers in the same state
CompareDescriptors ==
    /\ cmp = None
    /\ cmp' = Some([eq |-> Descriptor_eq(lhs, rhs),
                    hash_eq |-> Descriptor_hash(lhs) = Descriptor_hash(rhs)])
    /\ UNCHANGED <<usize_max, overflow_checks, regVars, graphVars, bfsVars,
                   lhs, rhs>>

\* lhs = lhs.map(op) on a vertex descriptor
MapDescriptor(op) ==
    /\ lhs \in VertexDescriptors
    /\ lhs' = VertexMap(lhs, op)
    /\ cmp' = None
    /\ UNCHANGED <<usize_max, overflow_checks, regVars, graphVars, bfsVars,
                   rhs>>

NextDescriptor ==
    \/ CompareDescriptors
    \/ \E op \in Operators : MapDescriptor(op)

SpecDescriptor == InitDescriptor /\ [][NextDescriptor]_vars

----------------------------------------------------------------------------
(* SpecVisit: the traversal with the tests' counting visitor and find_path *)
(* on the same graphs.  The programs include the two visiting tests and    *)
(* programs whose add_edge calls name an id that is no vertex.             *)

VisitEdgeLists(nv) ==
    UNION {[1..k -> (0..nv) \X (0..nv)] : k \in 0..MaxVisitEdges}

InitVisit ==
    /\ DescUnused
    /\ usize_max = UsizeMaxGraph
    /\ overflow_checks = TRUE
    /\ \/ /\ script = [nv |-> 0, edges |-> <<>>, weights |-> <<>>]
          /\ bgraph = Graph_new(null_registry, null_registry)
       \/ /\ script = [nv |-> 3, edges |-> << <<1, 2>> >>,
                       weights |-> <<"W1">>]
          /\ bgraph = Graph_new(new(3), new(2))
       \/ \E nv \in 1..MaxVisitVertices : \E es \in VisitEdgeLists(nv) :
              /\ script = [nv |-> nv, edges |-> es,
                           weights |-> [i \in 1..Len(es) |-> "W1"]]
              /\ bgraph = Graph_new(new(1), new(1))
    /\ pc = "build"
    /\ source = 0
    /\ transition_queue = <<>>
    /\ covered_vertices = {}
    /\ visitor = CountingGraphVisitor_new
    /\ trace = <<>>
    /\ result = None
    /\ RegUnused
    /\ GraphUnused

\* the caller constructs a counting visitor for its next traversals
NewVisitor ==
    /\ CallOver
    /\ visitor /= CountingGraphVisitor_new
    /\ visitor' = CountingGraphVisitor_new
    /\ pc' = "idle"
    /\ trace' = <<>>
    /\ UNCHANGED <<usize_max, overflow_checks, descVars, regVars, graphVars, bgraph,
                   script, source, transition_queue, covered_vertices,
                   result>>

NextVisit ==
    \/ BuildVertex
    \/ BuildEdge
    \/ NewVisitor
    \/ \E src \in 0..Cardinality(DOMAIN bgraph.vertices) : StartTraversal(src)
    \/ \E a, b \in 0..Cardinality(DOMAIN bgraph.vertices) : FindPath(a, b)
    \/ LoopIteration
    \/ FindPathReturn

SpecVisit == InitVisit /\ [][NextVisit]_vars

\* the programs of SpecVisit whose add_edge calls all join vertices
InitVisitWellFormed ==
    /\ InitVisit
    /\ \A i \in DOMAIN script.edges :
           script.edges[i][1] < script.nv /\ script.edges[i][2] < script.nv

\* the steps of SpecVisit with calls on vertices only: calls that get past
\* their asserts
NextVisitOnVertices ==
    \/ BuildVertex
    \/ BuildEdge
    \/ NewVisitor
    \/ \E src \in DOMAIN bgraph.vertices : StartTraversal(src)
    \/ \E a, b \in DOMAIN bgraph.vertices : FindPath(a, b)
    \/ LoopIteration
    \/ FindPathReturn

\* a call that has entered the while loop goes on running: nothing but the
\* loop itself can stop it
SpecVisitFair ==
    /\ InitVisitWellFormed
    /\ [][NextVisitOnVertices]_vars
    /\ WF_vars(LoopIteration)

----------------------------------------------------------------------------
(* SpecStop: breadth_first_traversal called with a caller's visitor that   *)
(* asks to stop after limit vertices, over graphs built as in SpecBFS.     *)

StopEdgeLists(nv) ==
    UNION {[1..k -> (0..(nv - 1)) \X (0..(nv - 1))] : k \in 0..MaxStopEdges}

InitStop ==
    /\ DescUnused
    /\ usize_max = UsizeMaxGraph
    /\ overflow_checks = TRUE
    /\ \E nv \in 1..MaxStopVertices : \E es \in StopEdgeLists(nv) :
           /\ script = [nv |-> nv, edges |-> es,
                        weights |-> [i \in 1..Len(es) |-> "W1"]]
           /\ bgraph = Graph_new(new(1), new(1))
    /\ pc = "build"
    /\ source = 0
    /\ transition_queue = <<>>
    /\ covered_vertices = {}
    /\ \E limit \in 0..MaxLimit : visitor = BoundedVisitor_new(limit)
    /\ trace = <<>>
    /\ result = None
    /\ RegUnused
    /\ GraphUnused

NextStop ==
    \/ BuildVertex
    \/ BuildEdge
    \/ \E src \in DOMAIN bgraph.vertices : StartTraversal(src)
    \/ LoopIteration

SpecStop == InitStop /\ [][NextStop]_vars

----------------------------------------------------------------------------
(* Claims about the registry, checked under SpecReg.                       *)

SetMin(S) == CHOOSE x \in S : \A y \in S : x <= y

Max2(a, b) == IF a >= b THEN a ELSE b

AcquireReturned == last'.op = "acquire_id" /\ last'.res = "Ok"

\* C1: an identifier returned by acquire_id is never one that is still held,
\* i.e. that an earlier acquire_id returned and no successful release_id has
\* given back since.
C1_Uniqueness == [][AcquireReturned => last'.id \notin held]_vars

\* an acquire_id succeeded while another identifier was held and after some
\* identifier had been released
C1_Witness ==
    /\ last.op = "acquire_id" /\ last.res = "Ok"
    /\ Cardinality(held) >= 2
    /\ relStack /= <<>>

\* C2: release_id(id) returns InvalidIdentifier for an id that was never
\* minted, IdentiferAlreadyReleased for an id that is free (released, or
\* minted and never acquired), succeeds for a held id, and a failed release
\* leaves the registry exactly as it was.
C2_ReleaseValidation ==
    [][last'.op = "release_id" =>
        /\ last'.id \notin registry.all_ids
               => last'.res = "InvalidIdentifier"
        /\ (\/ last'.id \in SeqToSet(relStack)
            \/ last'.id \in registry.all_ids \ everAcquired)
               => last'.res = "IdentiferAlreadyReleased"
        /\ last'.id \in held => last'.res = "Ok"
        /\ last'.res /= "Ok" => registry' = registry]_vars

\* a second release of an identifier that was acquired and released was
\* refused while other identifiers were held
C2_Witness ==
    /\ last.op = "release_id" /\ last.res = "IdentiferAlreadyReleased"
    /\ last.id \in everAcquired
    /\ held /= {}

\* C3: from new(N), N >= 1, with no release in between, the first N+1
\* acquire_id calls return 0, 1, ..., N in that order, and capacity grows
\* exactly once, on call N+1 and not before.
C3_GrowthCorrectness ==
    initial_size >= 1 =>
        /\ \A i \in 1..Len(acqLog) : acqLog[i] = i - 1
        /\ growths = IF Len(acqLog) = initial_size + 1 THEN 1 ELSE 0

\* N+1 identifiers were acquired from a registry of initial size N >= 2
C3_Witness ==
    /\ initial_size >= 2
    /\ Len(acqLog) = initial_size + 1
    /\ growths = 1

\* C4: acquire_id on an empty free-list with watermark W, W + max(1, W)
\* representable, mints W .. W + max(1, W) - 1, raises the watermark to
\* W + max(1, W), leaves all minted ids but W free and returns W; W = 0
\* (null_registry) included.
C4_GrowthStep ==
    [][(/\ last'.op = "acquire_id"
        /\ registry.free_id_alloc_chain = <<>>
        /\ registry.min_unallocated_id
             + Max2(1, registry.min_unallocated_id) <= usize_max)
       => LET W == registry.min_unallocated_id
              top == W + Max2(1, W)
          IN  /\ last'.res = "Ok"
              /\ last'.id = W
              /\ registry'.min_unallocated_id = top
              /\ registry'.all_ids = registry.all_ids \cup (W..(top - 1))
              /\ registry'.free_ids = (W + 1)..(top - 1)
              /\ registry'.free_id_alloc_chain = IdRange(W + 1, top)]_vars

\* C5: acquire_id fails with OutOfIdentifiers only when the free-list is
\* empty and the watermark equals usize::MAX; in every other state it
\* succeeds.
C5_OutOfIdentifiers ==
    [][last'.op = "acquire_id" =>
        LET exhausted == /\ registry.free_id_alloc_chain = <<>>
                         /\ registry.min_unallocated_id = usize_max
        IN  /\ last'.res = "OutOfIdentifiers" => exhausted
            /\ ~exhausted => last'.res = "Ok"]_vars

\* C6: a successful acquire_id returns the front of the free-list, which is
\* the most recently released identifier not yet handed out again, and, when
\* there is none, the smallest minted identifier that was never handed out.
C6_ReuseOrder ==
    [][AcquireReturned =>
        /\ registry.free_id_alloc_chain /= <<>>
               => last'.id = Head(registry.free_id_alloc_chain)
        /\ last'.id = IF relStack /= <<>>
                      THEN Head(relStack)
                      ELSE SetMin(registry'.all_ids \ everAcquired)]_vars

\* an identifier was re-acquired while an earlier released one was still
\* waiting and never-used identifiers existed
C6_Witness ==
    /\ last.op = "acquire_id" /\ last.res = "Ok"
    /\ relStack /= <<>>
    /\ registry.all_ids \ everAcquired /= {}
    /\ Cardinality(held) >= 2

\* the four fields of the registry agree with one another
RegistryConsistent ==
    /\ registry.all_ids = 0..(registry.min_unallocated_id - 1)
    /\ registry.free_ids \subseteq registry.all_ids
    /\ SeqToSet(registry.free_id_alloc_chain) = registry.free_ids
    /\ Len(registry.free_id_alloc_chain) = Cardinality(registry.free_ids)

\* C32: in every state reached from new(N) or null_registry by acquire_id
\* and release_id calls, the minted set is {0, ..., watermark - 1}, the free
\* set is a subset of it, the free-list holds exactly the elements of the
\* free set, each once, and no call lowers the watermark.
C32_RegistryInvariant ==
    /\ []RegistryConsistent
    /\ [][registry'.min_unallocated_id >= registry.min_unallocated_id]_vars

\* the registry has grown beyond its initial size, identifiers are held, and
\* a released identifier waits in the free-list in front of never-used ones
C32_Witness ==
    /\ registry.min_unallocated_id > initial_size
    /\ Cardinality(held) >= 2
    /\ relStack /= <<>>
    /\ Len(registry.free_id_alloc_chain) >= 2
    /\ Head(registry.free_id_alloc_chain) = Head(relStack)

\* an acquire_id called in this state returns OutOfIdentifiers
AcquireWouldFail == acquire_id(registry).res = "OutOfIdentifiers"

\* C34: an acquire_id that returns OutOfIdentifiers leaves the registry
\* (minted set, free set, free-list, watermark) as it was, and from then on
\* acquire_id keeps failing across every call that is not a successful
\* release_id.
C34_FailedAcquireKeepsFailing ==
    /\ [][(last'.op = "acquire_id" /\ last'.res = "OutOfIdentifiers")
              => /\ registry' = registry
                 /\ AcquireWouldFail']_vars
    /\ [][(AcquireWouldFail /\ ~(last'.op = "release_id" /\ last'.res = "Ok"))
              => /\ AcquireWouldFail'
                 /\ last'.op = "acquire_id"
                        => last'.res = "OutOfIdentifiers"]_vars

\* acquire_id has failed on a registry that has grown to its last
\* identifier with every identifier held
C34_Witness ==
    /\ last.op = "acquire_id" /\ last.res = "OutOfIdentifiers"
    /\ registry.min_unallocated_id = usize_max - 1
    /\ held = registry.all_ids
    /\ registry.free_id_alloc_chain = <<>>

----------------------------------------------------------------------------
(* Claims about the graph's adjacency indices, checked under SpecGraph.    *)

Count(l, x) == Cardinality({i \in 1..Len(l) : l[i] = x})

RefersToElements(g, adjacency) ==
    \A u \in DOMAIN adjacency : \A i \in 1..Len(adjacency[u]) :
        /\ adjacency[u][i][1] \in DOMAIN g.edges
        /\ adjacency[u][i][2] \in DOMAIN g.vertices

\* C7: after any sequence of Graph::new, add_vertex, add_edge, map_vertex and
\* reverse_graph with any argument ids, every (edge id, vertex id) pair in
\* forward_edges and in backward_edges names a key of edges and a key of
\* vertices.
C7_AdjacencyRefersToElements ==
    /\ RefersToElements(graph, graph.forward_edges)
    /\ RefersToElements(graph, graph.backward_edges)

IsTranspose(g) ==
    \A u \in IdArgs, v \in IdArgs, e \in DOMAIN g.edges :
        Count(MapGetOr(g.forward_edges, u, <<>>), <<e, v>>)
            = Count(MapGetOr(g.backward_edges, v, <<>>), <<e, u>>)

\* C8: backward_edges is the transpose of forward_edges, (e, v) occurring in
\* forward_edges[u] as often as (e, u) in backward_edges[v]; hence for every
\* edge u -> v between existing vertices, out_neighbours_of(u) lists v and
\* in_neighbours_of(v) lists u.
C8_AdjacencySymmetry ==
    /\ IsTranspose(graph)
    /\ \A u \in DOMAIN graph.vertices :
         \A i \in 1..Len(MapGetOr(graph.forward_edges, u, <<>>)) :
            LET e == graph.forward_edges[u][i][1]
                v == graph.forward_edges[u][i][2]
                outs == out_neighbours_of(graph, u)
                ins == in_neighbours_of(graph, v)
            IN  v \in DOMAIN graph.vertices =>
                    /\ outs.res = "Ok"
                    /\ \E k \in 1..Len(outs.list) :
                           outs.list[k][1].id = e /\ outs.list[k][2].id = v
                    /\ ins.res = "Ok"
                    /\ \E k \in 1..Len(ins.list) :
                           ins.list[k][1].id = e /\ ins.list[k][2].id = u

\* the transpose relation by itself
BackwardIsTransposeOfForward == IsTranspose(graph)

----------------------------------------------------------------------------
(* Claims about the in-place operations, checked under SpecGraph.          *)

IsNullRegistry(r) ==
    /\ r.all_ids = {} /\ r.free_ids = {}
    /\ r.free_id_alloc_chain = <<>> /\ r.min_unallocated_id = 0

\* no vertices, no edges, no adjacency, null registries
IsPlaceholder(g) ==
    /\ DOMAIN g.vertices = {} /\ DOMAIN g.edges = {}
    /\ DOMAIN g.forward_edges = {} /\ DOMAIN g.backward_edges = {}
    /\ IsNullRegistry(g.vertex_id_registry)
    /\ IsNullRegistry(g.edge_id_registry)

Last(l) == l[Len(l)]

\* g2 shows the whole effect of the call on g
FullyMutated(g, g2, call) ==
    CASE call.op = "add_vertex" ->
             /\ call.id \in DOMAIN g2.vertices
             /\ g2.vertices[call.id] = [id |-> call.id, data |-> call.args[1]]
             /\ Cardinality(DOMAIN g2.vertices)
                    = Cardinality(DOMAIN g.vertices) + 1
             /\ call.id \notin g2.vertex_id_registry.free_ids
      [] call.op = "add_edge" ->
             /\ call.id \in DOMAIN g2.edges
             /\ g2.edges[call.id] = [id |-> call.id, data |-> call.args[3]]
             /\ call.id \notin g2.edge_id_registry.free_ids
             /\ call.args[1] \in DOMAIN g2.forward_edges
             /\ Last(g2.forward_edges[call.args[1]])
                    = <<call.id, call.args[2]>>
             /\ call.args[2] \in DOMAIN g2.backward_edges
             /\ Last(g2.backward_edges[call.args[2]])
                    = <<call.id, call.args[1]>>
      [] call.op = "map_vertex" ->
             /\ call.args[1] \in DOMAIN g2.vertices
             /\ g2.vertices[call.args[1]].data
                    = Apply(call.args[2], g.vertices[call.args[1]].data)
      [] OTHER -> TRUE

InPlaceCall == glast'.op \in {"add_vertex", "add_edge", "map_vertex"}

\* C13: an in-place operation that fails midway (map_vertex with an id that
\* is not in the graph, add_vertex or add_edge when the registry cannot supply
\* an identifier) leaves the empty placeholder graph in the caller's slot; one
\* that returns leaves the fully mutated graph; nothing in between is seen.
C13_PlaceholderOnFailure ==
    [][InPlaceCall =>
          /\ glast'.res \in {"Ok", "Panic"}
          /\ glast'.res = "Panic" => IsPlaceholder(graph')
          /\ glast'.res = "Ok" => FullyMutated(graph, graph', glast')
          /\ (glast'.op = "map_vertex"
                  /\ glast'.args[1] \notin DOMAIN graph.vertices)
                 => glast'.res = "Panic"
          /\ (glast'.op = "add_vertex"
                  /\ acquire_id(graph.vertex_id_registry).res /= "Ok")
                 => glast'.res = "Panic"
          /\ (glast'.op = "add_edge"
                  /\ acquire_id(graph.edge_id_registry).res /= "Ok")
                 => glast'.res = "Panic"]_vars

\* map_vertex failed on a slot that held vertices, and the slot is empty now
C13_Witness ==
    /\ glast.op = "map_vertex"
    /\ glast.res = "Panic"
    /\ glast.before >= 1
    /\ IsPlaceholder(graph)

\* C14: add_edge does not check that its endpoints are vertices: whether the
\* call succeeds depends on the edge registry alone, and a call naming an id
\* that is not a vertex, on a graph whose registry supplies an identifier,
\* succeeds, returns an id that was not an edge id, stores the edge and
\* records the forward and the backward adjacency entry.
C14_NoEndpointValidation ==
    [][glast'.op = "add_edge" =>
          LET from == glast'.args[1]
              to == glast'.args[2]
              e == glast'.id
              supplied == acquire_id(graph.edge_id_registry).res = "Ok"
          IN  /\ glast'.res = "Ok" <=> supplied
              /\ (supplied /\ (\/ from \notin DOMAIN graph.vertices
                               \/ to \notin DOMAIN graph.vertices)) =>
                     /\ e \notin DOMAIN graph.edges
                     /\ e \in DOMAIN graph'.edges
                     /\ from \in DOMAIN graph'.forward_edges
                     /\ <<e, to>> \in SeqToSet(graph'.forward_edges[from])
                     /\ to \in DOMAIN graph'.backward_edges
                     /\ <<e, from>> \in SeqToSet(graph'.backward_edges[to])
       ]_vars

\* add_edge returned an edge between a vertex and an id that is no vertex
C14_Witness ==
    /\ glast.op = "add_edge"
    /\ glast.res = "Ok"
    /\ glast.args[1] \in DOMAIN graph.vertices
    /\ glast.args[2] \notin DOMAIN graph.vertices
    /\ glast.id \in DOMAIN graph.edges
    /\ glast.args[2] \in DOMAIN graph.backward_edges

\* m2 is m with x appended to the list under key k, every other list as it was
AppendedAt(m, m2, k, x) ==
    /\ DOMAIN m2 = DOMAIN m \cup {k}
    /\ m2[k] = Append(MapGetOr(m, k, <<>>), x)
    /\ \A j \in DOMAIN m \ {k} : m2[j] = m[j]

\* the (edge id, vertex id) list l is in the order its edges were created:
\* edge ids are handed out in increasing order (see C15's first part)
InCreationOrder(l) == \A i, j \in 1..Len(l) : i < j => l[i][1] < l[j][1]

\* what out_neighbours_of / in_neighbours_of must return for the list l
Resolved(g, l) ==
    [i \in 1..Len(l) |-> <<g.edges[l[i][1]], g.vertices[l[i][2]]>>]

NeighboursInOrder(g, adjacency, r, u) ==
    LET l == MapGetOr(adjacency, u, <<>>) IN
    /\ InCreationOrder(l)
    /\ r.res = "Ok" => r.list = Resolved(g, l)
    /\ l = <<>> => (r.res = "Ok" /\ r.list = <<>>)

\* C15: a returning add_edge(g, from, to, w) takes an edge id e that was not
\* an edge id of g (and is larger than all of them), stores e with payload w,
\* appends (e, to) at the end of from's forward list and (e, from) at the end
\* of to's backward list, and leaves the other edges, the other adjacency
\* lists, the vertices and the vertex registry as they were; so the lists
\* out_neighbours_of and in_neighbours_of return are in the order of the
\* add_edge calls, and empty for an id without such edges.
C15_EdgeAdditionFrame ==
    /\ [][(glast'.op = "add_edge" /\ glast'.res = "Ok") =>
             LET from == glast'.args[1]
                 to == glast'.args[2]
                 w == glast'.args[3]
                 e == glast'.id
             IN  /\ e \notin DOMAIN graph.edges
                 /\ \A x \in DOMAIN graph.edges : x < e
                 /\ graph'.edges = MapPut(graph.edges, e,
                                          [id |-> e, data |-> w])
                 /\ AppendedAt(graph.forward_edges, graph'.forward_edges,
                               from, <<e, to>>)
                 /\ AppendedAt(graph.backward_edges, graph'.backward_edges,
                               to, <<e, from>>)
                 /\ graph'.vertices = graph.vertices
                 /\ graph'.vertex_id_registry = graph.vertex_id_registry
          ]_vars
    /\ [](glast.op /= "unused" =>
             \A u \in IdArgs :
                 /\ NeighboursInOrder(graph, graph.forward_edges,
                                      out_neighbours_of(graph, u), u)
                 /\ NeighboursInOrder(graph, graph.backward_edges,
                                      in_neighbours_of(graph, u), u))

\* the second of two add_edge calls out of one vertex has returned, and
\* out_neighbours_of lists both edges
C15_Witness ==
    /\ glast.op = "add_edge"
    /\ glast.res = "Ok"
    /\ LET r == out_neighbours_of(graph, glast.args[1]) IN
       /\ r.res = "Ok"
       /\ Len(r.list) = 2
       /\ r.list[2][1].id = glast.id
       /\ r.list[1][2].id /= r.list[2][2].id

\* C16: a returning add_vertex(g, d) returns an id that was not a vertex id
\* of g; afterwards the vertex under that id has payload d, there is exactly
\* one vertex more, and the other vertices, the edges, both adjacency indices
\* and the edge registry are as they were.
C16_VertexAdditionFrame ==
    [][(glast'.op = "add_vertex" /\ glast'.res = "Ok") =>
          LET d == glast'.args[1]
              id == glast'.id
          IN  /\ id \notin DOMAIN graph.vertices
              /\ id \in DOMAIN graph'.vertices
              /\ graph'.vertices[id].data = d
              /\ graph'.vertices[id].id = id
              /\ Cardinality(DOMAIN graph'.vertices)
                     = Cardinality(DOMAIN graph.vertices) + 1
              /\ \A v \in DOMAIN graph.vertices :
                     /\ v \in DOMAIN graph'.vertices
                     /\ graph'.vertices[v] = graph.vertices[v]
              /\ graph'.edges = graph.edges
              /\ graph'.forward_edges = graph.forward_edges
              /\ graph'.backward_edges = graph.backward_edges
              /\ graph'.edge_id_registry = graph.edge_id_registry
       ]_vars

\* add_vertex returned on a slot that held a vertex with the other payload
\* and an edge
C16_Witness ==
    /\ glast.op = "add_vertex"
    /\ glast.res = "Ok"
    /\ glast.before >= 1
    /\ DOMAIN graph.edges /= {}
    /\ graph.vertices[glast.id].data = glast.args[1]
    /\ \E v \in DOMAIN graph.vertices :
           graph.vertices[v].data /= glast.args[1]

\* C17: map_vertex(g, id, f) on an id that is a vertex of g returns and
\* leaves under the same id the vertex with payload f(old payload), the set
\* of vertex ids, the other payloads, the edges, both adjacency indices and
\* both registries as they were; on an id that is not a vertex of g it fails,
\* and the mutator still holds f, which was applied to nothing.
C17_VertexReplacementFrame ==
    [][glast'.op = "map_vertex" =>
          LET id == glast'.args[1]
              f == glast'.args[2]
          IN  IF id \in DOMAIN graph.vertices
              THEN /\ glast'.res = "Ok"
                   /\ DOMAIN graph'.vertices = DOMAIN graph.vertices
                   /\ graph'.vertices[id] =
                          [id |-> id,
                           data |-> Apply(f, graph.vertices[id].data)]
                   /\ \A v \in DOMAIN graph.vertices \ {id} :
                          graph'.vertices[v] = graph.vertices[v]
                   /\ graph'.edges = graph.edges
                   /\ graph'.forward_edges = graph.forward_edges
                   /\ graph'.backward_edges = graph.backward_edges
                   /\ graph'.vertex_id_registry = graph.vertex_id_registry
                   /\ graph'.edge_id_registry = graph.edge_id_registry
              ELSE /\ glast'.res = "Panic"
                   /\ VertexReplacementMutator_mutate(
                          VertexReplacementMutator_new(id, f), graph
                      ).self.vertex_operator = Some(f)
       ]_vars

\* map_vertex changed the payload of one of two vertices of a graph with an
\* edge
C17_Witness ==
    /\ glast.op = "map_vertex"
    /\ glast.res = "Ok"
    /\ glast.args[2] = "flip"
    /\ Cardinality(DOMAIN graph.vertices) = 2
    /\ DOMAIN graph.edges /= {}
    /\ \E v \in DOMAIN graph.vertices :
           graph.vertices[v].data /= graph.vertices[glast.args[1]].data

----------------------------------------------------------------------------
(* Claims about mutator objects, checked under SpecMutator.                *)

----------------------------------------------------------------------------
(* Claims about breadth_first_traversal, checked under SpecBFS.  Reach-    *)
(* ability, distance and the reference order are computed from the list of *)
(* (from, to) pairs the graph was built from.                              *)

\* targets of the edges leaving u, in the order the edges were added
RECURSIVE Targets(_, _)
Targets(es, u) ==
    IF es = <<>> THEN <<>>
    ELSE IF Head(es)[1] = u THEN <<Head(es)[2]>> \o Targets(Tail(es), u)
    ELSE Targets(Tail(es), u)

Successors(es, S) == {es[i][2] : i \in {j \in 1..Len(es) : es[j][1] \in S}}

RECURSIVE ReachableFrom(_, _)
ReachableFrom(es, S) ==
    IF Successors(es, S) \subseteq S THEN S
    ELSE ReachableFrom(es, S \cup Successors(es, S))

\* vertices within k hops of s
RECURSIVE Ball(_, _, _)
Ball(es, s, k) ==
    IF k = 0 THEN {s}
    ELSE Ball(es, s, k - 1) \cup Successors(es, Ball(es, s, k - 1))

\* hop distance from s to a vertex v reachable from s
Dist(es, s, v) == CHOOSE k \in 0..Len(es) :
    v \in Ball(es, s, k) /\ \A j \in 0..(k - 1) : v \notin Ball(es, s, j)

\* s without the elements of seen and without repetitions, order kept
RECURSIVE FirstOccurrences(_, _)
FirstOccurrences(s, seen) ==
    IF s = <<>> THEN <<>>
    ELSE IF Head(s) \in seen THEN FirstOccurrences(Tail(s), seen)
    ELSE <<Head(s)>> \o FirstOccurrences(Tail(s), seen \cup {Head(s)})

RECURSIVE TargetsOfAll(_, _)
TargetsOfAll(es, level) ==
    IF level = <<>> THEN <<>>
    ELSE Targets(es, Head(level)) \o TargetsOfAll(es, Tail(level))

\* breadth-first order by layers: a layer is followed by the not yet seen
\* out-neighbours of its vertices, parent by parent, in adjacency order
RECURSIVE LayeredOrder(_, _, _)
LayeredOrder(es, level, seen) ==
    IF level = <<>> THEN <<>>
    ELSE LET next == FirstOccurrences(TargetsOfAll(es, level), seen) IN
         level \o LayeredOrder(es, next, seen \cup SeqToSet(next))

\* the vertices visit_vertex was called for, in call order
RECURSIVE VisitedOf(_)
VisitedOf(t) ==
    IF t = <<>> THEN <<>>
    ELSE IF Head(t).call = "visit_vertex"
    THEN <<Head(t).vertex>> \o VisitedOf(Tail(t))
    ELSE VisitedOf(Tail(t))

Visited == VisitedOf(trace)

NoRepetition(s) == \A i, j \in 1..Len(s) : s[i] = s[j] => i = j

\* C9: a traversal from a source of the graph, with a visitor that never asks
\* to terminate, calls visit_vertex exactly once for every vertex reachable
\* from the source and for no other vertex.
C9_BfsCompleteness ==
    /\ pc \in {"loop", "done"} =>
           /\ NoRepetition(Visited)
           /\ SeqToSet(Visited) \subseteq ReachableFrom(script.edges, {source})
    /\ pc = "done" =>
           SeqToSet(Visited) = ReachableFrom(script.edges, {source})

\* a traversal ended having visited several vertices of a graph that also
\* has a vertex out of the source's reach and an edge into a covered vertex
C9_Witness ==
    /\ pc = "done"
    /\ Len(Visited) >= 2
    /\ SeqToSet(Visited) /= DOMAIN bgraph.vertices
    /\ Len(script.edges) > Len(Visited)

ExpectedTestOrder ==
    [s \in 0..4 |->
        CASE s = 0 -> <<0, 1, 2, 3, 4>>
          [] s = 1 -> <<1, 4>>
          [] s = 2 -> <<2, 1, 4, 3, 0>>
          [] s = 3 -> <<3, 4, 0, 1, 2>>
          [] s = 4 -> <<4, 1>>]

\* C10: the visit_vertex calls of a complete traversal come in non-decreasing
\* hop distance from the source and in the FIFO breadth-first order that
\* enqueues out-neighbours in adjacency-insertion order; for the graph of
\* graph_nontrivial_bfs the orders are [1,2,3,4,5] from 1, [2,5] from 2,
\* [3,2,5,4,1] from 3, [4,5,1,2,3] from 4 and [5,2] from 5 (ids one less).
C10_BfsOrder ==
    pc = "done" =>
        /\ \A i \in 1..(Len(Visited) - 1) :
               Dist(script.edges, source, Visited[i])
                   <= Dist(script.edges, source, Visited[i + 1])
        /\ Visited = LayeredOrder(script.edges, <<source>>, {source})
        /\ visitor.vertices = Visited
        /\ script.edges = TestEdges => Visited = ExpectedTestOrder[source]

\* the traversal from v3 of the graph of graph_nontrivial_bfs has ended
C10_Witness ==
    /\ pc = "done"
    /\ script.edges = TestEdges
    /\ source = 2
    /\ Len(Visited) = 5

\* positions of the trace holding a call of the given kind
CallsOf(kind) == {i \in 1..Len(trace) : trace[i].call = kind}

\* C19: for every visited vertex v other than the source, visit_edge(u, e, v)
\* is called exactly once, immediately before visit_vertex(v), where e is an
\* edge of the graph from u to v and u was visited earlier; visit_edge is not
\* called for the source, so a complete traversal makes one visit_edge call
\* less than it visits vertices.
C19_EdgeBeforeVertex ==
    /\ pc \in {"loop", "done"} =>
           /\ \A i \in CallsOf("visit_vertex") :
                  IF trace[i].vertex = source
                  THEN trace[i - 1].call = "reset"
                  ELSE /\ trace[i - 1].call = "visit_edge"
                       /\ trace[i - 1].to = trace[i].vertex
           /\ \A i \in CallsOf("visit_edge") :
                  LET u == trace[i].from
                      e == trace[i].edge
                      v == trace[i].to
                  IN  /\ v /= source
                      /\ i < Len(trace)
                      /\ trace[i + 1] = [call |-> "visit_vertex", vertex |-> v]
                      /\ \A j \in CallsOf("visit_edge") :
                             trace[j].to = v => j = i
                      /\ e \in DOMAIN bgraph.edges
                      /\ u \in DOMAIN bgraph.forward_edges
                      /\ <<e, v>> \in SeqToSet(bgraph.forward_edges[u])
                      /\ \E j \in CallsOf("visit_vertex") :
                             j < i /\ trace[j].vertex = u
    /\ pc = "done" =>
           Cardinality(CallsOf("visit_edge"))
               = Cardinality(CallsOf("visit_vertex")) - 1

\* a complete traversal of the graph of graph_nontrivial_bfs from v1: five
\* vertices visited over four of its ten edges
C19_Witness ==
    /\ pc = "done"
    /\ script.edges = TestEdges
    /\ source = 0
    /\ Cardinality(CallsOf("visit_vertex")) = 5
    /\ Cardinality(CallsOf("visit_edge")) = 4

----------------------------------------------------------------------------
(* Claims about find_path, checked under SpecPath.                         *)

\* the endpoints of the find_path call in progress or just returned
PathFrom == visitor.initial_vertex_id
PathTo == visitor.final_vertex_id

\* C11: for endpoints that are vertices of a well-formed graph, find_path
\* returns a walk exactly when the target is reachable from the source and
\* nothing otherwise, and the walk has as many edges as the hop distance from
\* source to target; the payloads of the edges play no part in this.
C11_PathOptimality ==
    /\ pc = "returned" =>
           /\ result /= None <=>
                  PathTo \in ReachableFrom(script.edges, {PathFrom})
           /\ result /= None =>
                  Len(result[1].edges) = Dist(script.edges, PathFrom, PathTo)
    /\ pc = "panicked" =>
           \/ PathFrom \notin DOMAIN bgraph.vertices
           \/ PathTo \notin DOMAIN bgraph.vertices

\* find_path returned a two-edge walk in the graph of graph_nontrivial_bfs
\* built with unequal payloads, where longer routes to the target exist too
C11_Witness ==
    /\ pc = "returned"
    /\ script.edges = TestEdges
    /\ script.weights[1] = "W2"
    /\ PathFrom = 2 /\ PathTo = 0
    /\ result /= None
    /\ Len(result[1].edges) = 2

\* C12: a walk returned by find_path(a, b) starts at a, ends at b, has one
\* edge less than it has vertices, and its i-th edge is an edge of the graph
\* from its i-th vertex to its (i+1)-th vertex.
C12_WalkShape ==
    (pc = "returned" /\ result /= None) =>
        LET vs == result[1].vertices
            es == result[1].edges
        IN  /\ Len(vs) >= 1
            /\ vs[1].id = PathFrom
            /\ vs[Len(vs)].id = PathTo
            /\ Len(es) = Len(vs) - 1
            /\ \A i \in 1..Len(vs) :
                   /\ vs[i].id \in DOMAIN bgraph.vertices
                   /\ vs[i] = bgraph.vertices[vs[i].id]
            /\ \A i \in 1..Len(es) :
                   /\ es[i].id \in DOMAIN bgraph.edges
                   /\ es[i] = bgraph.edges[es[i].id]
                   /\ <<es[i].id, vs[i + 1].id>> \in
                          SeqToSet(MapGetOr(bgraph.forward_edges, vs[i].id,
                                            <<>>))

\* find_path returned a walk over three distinct vertices
C12_Witness ==
    /\ pc = "returned"
    /\ result /= None
    /\ script.nv = 3
    /\ Len(result[1].vertices) = 3
    /\ result[1].vertices[1].id /= result[1].vertices[3].id

\* C20: the loop body runs only while the queue is non-empty and
\* should_terminate() is false; once should_terminate() is true the traversal
\* returns without another visit_vertex or visit_edge call, even with
\* transitions left in the queue, and a returned traversal makes no call.
C20_EarlyTermination ==
    [][/\ (pc = "loop" /\ trace' /= trace) =>
              (~ShouldTerminate(visitor) /\ transition_queue /= <<>>)
       /\ (pc = "loop" /\ ShouldTerminate(visitor)) =>
              /\ pc' = "done"
              /\ trace' = trace
              /\ visitor' = visitor
              /\ transition_queue' = transition_queue
       /\ (pc = "loop" /\ transition_queue = <<>>) =>
              (pc' = "done" /\ trace' = trace)
       /\ pc = "done" => trace' = trace
      ]_vars

\* the traversal of a find_path call returned with the path built and
\* transitions still queued
C20_Witness ==
    /\ pc = "done"
    /\ ShouldTerminate(visitor)
    /\ transition_queue /= <<>>
    /\ Len(trace) >= 3

\* C28: during find_path(a, b) should_terminate is true exactly from the
\* visit of b on, and the traversal stops there: b is the last vertex
\* visit_vertex is called for, and no vertex farther from a than b, in
\* hops, is visited
C28_StopsAtTarget ==
    /\ pc \in {"loop", "done"} =>
           (ShouldTerminate(visitor) <=> PathTo \in SeqToSet(Visited))
    /\ (pc \in {"loop", "done", "returned"}
           /\ PathTo \in SeqToSet(Visited)) =>
           /\ Last(Visited) = PathTo
           /\ \A v \in SeqToSet(Visited) :
                  Dist(script.edges, PathFrom, v)
                      <= Dist(script.edges, PathFrom, PathTo)

\* in the graph of graph_nontrivial_bfs, find_path(0, 3) has stopped at 3,
\* one hop away, with the two-hop vertex 4 and 3's own successors unvisited
C28_Witness ==
    /\ pc = "done"
    /\ script.edges = TestEdges
    /\ PathFrom = 0 /\ PathTo = 3
    /\ Visited = <<0, 1, 2, 3>>
    /\ transition_queue /= <<>>
    /\ ShouldTerminate(visitor)

\* C35: find_path(v, v) for a vertex v of the graph returns the walk made of
\* v alone, with no edge, whether or not v has a self-loop or lies on a
\* cycle; the walk is built at the visit of the source, the only visit made.
C35_TrivialPath ==
    PathFrom = PathTo =>
        /\ pc = "panicked" => PathFrom \notin DOMAIN bgraph.vertices
        /\ pc = "returned" =>
               /\ result = Some(Walk(<<bgraph.vertices[PathFrom]>>, <<>>))
               /\ Visited = <<PathFrom>>
               /\ CallsOf("visit_edge") = {}

\* find_path(0, 0) has returned on a graph where 0 has a self-loop and an
\* edge to another vertex, which the traversal has left waiting
C35_Witness ==
    /\ pc = "returned"
    /\ PathFrom = 0 /\ PathTo = 0
    /\ <<0, 0>> \in SeqToSet(script.edges)
    /\ <<0, 1>> \in SeqToSet(script.edges)
    /\ result /= None

\* position of vertex v in the sequence of visited vertices
VisitIndex(v) == CHOOSE i \in 1..Len(Visited) : Visited[i] = v

\* number of back-edges followed from v to the call's source, -1 when the
\* chain breaks or is longer than fuel
RECURSIVE BackSteps(_, _)
BackSteps(v, fuel) ==
    IF v = PathFrom THEN 0
    ELSE IF fuel = 0 \/ v \notin DOMAIN visitor.back_edge_lookup THEN -1
    ELSE LET rest == BackSteps(visitor.back_edge_lookup[v][1], fuel - 1)
         IN  IF rest = -1 THEN -1 ELSE rest + 1

\* the back-edges recorded so far, one for each visited vertex but the source
BackEdgesFormTree ==
    (pc \in {"loop", "done", "returned"} /\ visitor.kind = "WalkBuilder") =>
        LET back == visitor.back_edge_lookup IN
        /\ DOMAIN back = SeqToSet(Visited) \ {PathFrom}
        /\ DOMAIN visitor.vertex_lookup = SeqToSet(Visited)
        /\ \A v \in DOMAIN back :
               LET u == back[v][1]
                   e == back[v][2]
               IN  /\ back[v][3] = v
                   /\ u \in SeqToSet(Visited)
                   /\ VisitIndex(u) < VisitIndex(v)
                   /\ e = bgraph.edges[e.id]
                   /\ script.edges[e.id + 1] = <<u, v>>
                   /\ Dist(script.edges, PathFrom, u) + 1
                          = Dist(script.edges, PathFrom, v)
        /\ \A v \in SeqToSet(Visited) :
               BackSteps(v, script.nv) = Dist(script.edges, PathFrom, v)

\* C31: during find_path(a, b) every visited vertex v other than a has
\* exactly one recorded back-edge (u, e, v), with u visited before v and one
\* hop nearer to a; a has none; a recorded back-edge is never overwritten;
\* following back-edges from a visited vertex v reaches a in hop-distance(v)
\* steps, so build_path ends and its lookups never fail: a find_path call
\* fails only at its asserts
C31_BackEdgeTree ==
    /\ []BackEdgesFormTree
    /\ [](pc = "panicked" => trace = <<>>)
    /\ [][pc = "loop" =>
             \A v \in DOMAIN visitor.back_edge_lookup :
                 /\ v \in DOMAIN visitor'.back_edge_lookup
                 /\ visitor'.back_edge_lookup[v]
                        = visitor.back_edge_lookup[v]]_vars

\* in the graph of graph_nontrivial_bfs, find_path(2, 0) has recorded the
\* back-edges of 1, 4, 3 and 0 and built a walk of two edges from them
C31_Witness ==
    /\ pc = "done"
    /\ script.edges = TestEdges
    /\ PathFrom = 2 /\ PathTo = 0
    /\ DOMAIN visitor.back_edge_lookup = {0, 1, 3, 4}
    /\ visitor.back_edge_lookup[0][1] = 3
    /\ visitor.path /= None
    /\ Len(visitor.path[1].edges) = 2

----------------------------------------------------------------------------
(* Claims about the ids add_vertex and add_edge hand out (SpecGraph).  A   *)
(* slot whose registries are not null has never held the placeholder, so   *)
(* its vertices and edges count the add_vertex and add_edge calls made.    *)

\* C26: in a graph created with registries of positive initial size, the
\* k-th add_vertex returns vertex id k-1 and the k-th add_edge returns edge
\* id k-1, however the calls are interleaved with each other and with
\* map_vertex: the two id sequences do not depend on one another
C26_SequentialIds ==
    [][/\ (/\ glast'.op = "add_vertex"
           /\ ~IsNullRegistry(graph.vertex_id_registry)) =>
              /\ glast'.res = "Ok"
              /\ glast'.id = Cardinality(DOMAIN graph.vertices)
              /\ DOMAIN graph'.vertices = 0..glast'.id
       /\ (/\ glast'.op = "add_edge"
           /\ ~IsNullRegistry(graph.edge_id_registry)) =>
              /\ glast'.res = "Ok"
              /\ glast'.id = Cardinality(DOMAIN graph.edges)
              /\ DOMAIN graph'.edges = 0..glast'.id]_vars

\* the second add_vertex has returned 1 in a graph that already has an edge
\* and whose first vertex has since been mapped
C26_Witness ==
    /\ glast.op = "add_vertex"
    /\ glast.res = "Ok"
    /\ glast.id = 1
    /\ 0 \in DOMAIN graph.edges
    /\ graph.vertices[0].data /= graph.vertices[1].data

----------------------------------------------------------------------------
(* Claims about reverse_graph (SpecGraph).                                 *)

\* g2 has the vertices, edges and registries of g, and the neighbour
\* queries of g with their roles swapped, in the same order
SwapsRoles(g, g2) ==
    /\ g2.vertices = g.vertices
    /\ g2.edges = g.edges
    /\ g2.vertex_id_registry = g.vertex_id_registry
    /\ g2.edge_id_registry = g.edge_id_registry
    /\ \A x \in DOMAIN g.vertices :
           /\ out_neighbours_of(g2, x) = in_neighbours_of(g, x)
           /\ in_neighbours_of(g2, x) = out_neighbours_of(g, x)

\* is_adjacent(a, b) returns true on g2 exactly when is_adjacent(b, a)
\* returns true on g
AdjacencyReversed(g, g2) ==
    \A a, b \in DOMAIN g.vertices :
        (is_adjacent(g2, a, b) = [res |-> "Ok", value |-> TRUE])
            <=> (is_adjacent(g, b, a) = [res |-> "Ok", value |-> TRUE])

\* C24: reverse_graph(g) has g's vertices, edges and registries; for every
\* vertex x its out_neighbours_of(x) is g's in_neighbours_of(x) and its
\* in_neighbours_of(x) is g's out_neighbours_of(x), in the same order;
\* is_adjacent(a, b) holds in it iff is_adjacent(b, a) holds in g; and
\* reversing it again gives back g
C24_ReverseSwapsRoles ==
    [][glast'.op = "reverse_graph" =>
         /\ SwapsRoles(graph, graph')
         /\ AdjacencyReversed(graph, graph')
         /\ reverse_graph(graph') = graph]_vars

\* the same on graphs whose adjacency entries all name elements
C24_OnWellFormed ==
    [][(/\ glast'.op = "reverse_graph"
        /\ RefersToElements(graph, graph.forward_edges)
        /\ RefersToElements(graph, graph.backward_edges)) =>
         /\ SwapsRoles(graph, graph')
         /\ AdjacencyReversed(graph, graph')
         /\ reverse_graph(graph') = graph]_vars

----------------------------------------------------------------------------
(* Claims about descriptors (SpecDescriptor).                              *)

Compared == cmp /= None

\* C25: equality and hashing of vertex descriptors and of edge descriptors
\* go by the id alone: descriptors with the same id compare equal and hash
\* equally whatever their payloads, descriptors with different ids compare
\* unequal
C25_EqualityById ==
    Compared =>
        IF lhs.id = rhs.id
        THEN cmp[1].eq /\ cmp[1].hash_eq
        ELSE ~cmp[1].eq

\* C25 as amended: hashing goes by the id alone, equality by id and payload:
\* descriptors with the same id hash equally and compare equal exactly when
\* their payloads are equal, descriptors with different ids compare unequal
C25_HashByIdEqualityByFields ==
    Compared =>
        IF lhs.id = rhs.id
        THEN cmp[1].hash_eq /\ (cmp[1].eq <=> lhs.data = rhs.data)
        ELSE ~cmp[1].eq

\* same id, different payloads: equal hashes, unequal descriptors
C25_Witness ==
    /\ Compared
    /\ lhs.id = rhs.id
    /\ lhs.data /= rhs.data
    /\ cmp[1].hash_eq
    /\ ~cmp[1].eq

----------------------------------------------------------------------------
(* Claims about adjacency queries on graphs built by add_vertex and        *)
(* add_edge calls whose endpoints are vertices (SpecPath).                 *)

\* the add_edge calls performed so far, in order: <<from, to, payload, id>>
Performed ==
    [i \in 1..Cardinality(DOMAIN bgraph.edges) |->
        <<script.edges[i][1], script.edges[i][2], script.weights[i], i - 1>>]

PerformedBetween(a, b) ==
    {i \in DOMAIN Performed : Performed[i][1] = a /\ Performed[i][2] = b}

\* the graph is under construction or just built; no later step changes it
Building == pc \in {"build", "idle"}

\* C22: after each call of the construction, is_adjacent(a, b) succeeds for
\* every vertex a, also one without outgoing edges, and is true exactly
\* when some add_edge(a, b, _) was performed; so add_edge(a, b) alone never
\* makes is_adjacent(b, a) true
C22_IsAdjacentIffEdgeAdded ==
    Building =>
        \A a \in DOMAIN bgraph.vertices : \A b \in 0..script.nv :
            LET r == is_adjacent(bgraph, a, b) IN
            /\ r.res = "Ok"
            /\ r.value <=> PerformedBetween(a, b) /= {}

\* an edge a -> b without an edge b -> a, and a vertex without outgoing edges
C22_Witness ==
    /\ pc = "idle"
    /\ \E a, b \in DOMAIN bgraph.vertices :
           /\ a /= b
           /\ PerformedBetween(a, b) /= {}
           /\ PerformedBetween(b, a) = {}
           /\ is_adjacent(bgraph, a, b).value
           /\ ~is_adjacent(bgraph, b, a).value
           /\ b \notin DOMAIN bgraph.forward_edges

\* the earliest add_edge(a, b, _) call performed
Earliest(a, b) ==
    CHOOSE i \in PerformedBetween(a, b) :
        \A j \in PerformedBetween(a, b) : i <= j

\* C23: after each call of the construction, get_edge_between(a, b) on a
\* vertex a fails fatally when no add_edge(a, b, _) was performed
\* (is_adjacent(a, b) is then false), and otherwise returns the edge of the
\* earliest add_edge(a, b, w) call, with that call's id and payload w
C23_GetEdgeBetweenEarliest ==
    Building =>
        \A a \in DOMAIN bgraph.vertices : \A b \in 0..script.nv :
            LET r == get_edge_between(bgraph, a, b) IN
            IF ~is_adjacent(bgraph, a, b).value
            THEN r.res = "Panic" /\ PerformedBetween(a, b) = {}
            ELSE /\ PerformedBetween(a, b) /= {}
                 /\ r.res = "Ok"
                 /\ r.value.id = Performed[Earliest(a, b)][4]
                 /\ r.value.data = Performed[Earliest(a, b)][3]
                 /\ r.value = bgraph.edges[r.value.id]

\* two parallel edges with different payloads: the first one's is returned
C23_Witness ==
    /\ pc = "idle"
    /\ \E a, b \in DOMAIN bgraph.vertices :
           /\ Cardinality(PerformedBetween(a, b)) = 2
           /\ \E i, j \in PerformedBetween(a, b) :
                  i < j /\ Performed[i][3] /= Performed[j][3]
           /\ get_edge_between(bgraph, a, b).value.data
                  = Performed[Earliest(a, b)][3]
           /\ \E c \in DOMAIN bgraph.vertices :
                  get_edge_between(bgraph, a, c).res = "Panic"

----------------------------------------------------------------------------
(* Claims about calls on ids that are no vertex, and on dangling edges     *)
(* (SpecVisit).                                                            *)

\* a step that begins a breadth_first_traversal or a find_path call
CallBegins == pc \notin {"build", "loop"} /\ pc' \in {"loop", "panicked"}

\* C21: a traversal whose source is no vertex, and a find_path with an
\* endpoint that is no vertex, fail fatally before any visitor method is
\* called: no call is logged, and the caller's visitor is left as it was;
\* with vertices for arguments the call goes on to reset the visitor
C21_FailBeforeVisitor ==
    [][CallBegins =>
         LET isPath == visitor'.kind = "WalkBuilder"
             bad == \/ source' \notin DOMAIN bgraph.vertices
                    \/ /\ isPath
                       /\ visitor'.final_vertex_id \notin DOMAIN bgraph.vertices
         IN  IF bad
             THEN /\ pc' = "panicked"
                  /\ trace' = <<>>
                  /\ IF isPath
                     THEN visitor' = WalkBuilder_new(source',
                                         visitor'.final_vertex_id)
                     ELSE visitor' = visitor
             ELSE /\ pc' = "loop"
                  /\ trace' = <<[call |-> "reset"]>>]_vars

\* a traversal has failed on a non-vertex source and the counts of the
\* visitor's previous traversal are still there
C21_Witness ==
    /\ pc = "panicked"
    /\ trace = <<>>
    /\ source \notin DOMAIN bgraph.vertices
    /\ visitor.kind = "CountingGraphVisitor"
    /\ visitor.vertex_count > 0

\* C27: every traversal calls visitor.reset() exactly once, before any visit
\* call, so a counting visitor that is used again reports the traversal in
\* progress only: its counts are the numbers of visit_vertex and visit_edge
\* calls of this traversal, and when the traversal from s has returned, the
\* number of vertices reachable from s and one less than that
C27_ResetOncePerTraversal ==
    pc \in {"loop", "done"} =>
        /\ CallsOf("reset") = {1}
        /\ visitor.kind = "CountingGraphVisitor" =>
               /\ visitor.vertex_count = Cardinality(CallsOf("visit_vertex"))
               /\ visitor.edge_count = Cardinality(CallsOf("visit_edge"))
               /\ pc = "done" =>
                      /\ visitor.vertex_count =
                             Cardinality(ReachableFrom(script.edges, {source}))
                      /\ visitor.edge_count = visitor.vertex_count - 1

\* graph_simple_visiting's second traversal has returned: 2 vertices, 1 edge
C27_Witness ==
    /\ pc = "done"
    /\ script.nv = 3
    /\ script.edges = << <<1, 2>> >>
    /\ source = 1
    /\ visitor = [kind |-> "CountingGraphVisitor", vertex_count |-> 2,
                  edge_count |-> 1]

\* the vertices of the transitions waiting in the queue, in order
RECURSIVE QueuedVertices(_)
QueuedVertices(q) ==
    IF q = <<>> THEN <<>>
    ELSE <<Head(q).vertex>> \o QueuedVertices(Tail(q))

\* no vertex is dequeued twice, none waits in the queue twice or after its
\* visit, and a traversal that has returned has either emptied the queue
\* and visited all that the source reaches, or was told to stop
DequeuedOnce ==
    pc \in {"loop", "done"} =>
        /\ NoRepetition(Visited \o QueuedVertices(transition_queue))
        /\ Len(Visited) <= Cardinality(DOMAIN bgraph.vertices)
        /\ pc = "done" =>
               \/ /\ transition_queue = <<>>
                  /\ SeqToSet(Visited)
                         = ReachableFrom(script.edges, {source})
               \/ ShouldTerminate(visitor)

\* the queue and the covered set of a traversal in progress or just over
QueueWithinCovered ==
    pc \in {"loop", "done"} =>
        LET queued == QueuedVertices(transition_queue) IN
        /\ SeqToSet(queued) \subseteq covered_vertices
        /\ NoRepetition(queued)
        /\ SeqToSet(Visited) \subseteq covered_vertices
        /\ SeqToSet(Visited) \cap SeqToSet(queued) = {}
        /\ covered_vertices = SeqToSet(Visited) \cup SeqToSet(queued)
        /\ Len(transition_queue) <= Cardinality(DOMAIN bgraph.vertices)

\* C33: at every point of a breadth-first traversal each queued vertex is
\* covered, no vertex is queued twice, each visited vertex is covered and no
\* longer queued, and a loop iteration enqueues exactly the vertices it
\* covers for the first time, behind the entries already waiting; so a
\* vertex is enqueued at most once and the queue is never longer than the
\* number of vertices.
C33_QueueDiscipline ==
    /\ []QueueWithinCovered
    /\ [][(pc = "loop" /\ pc' \in {"loop", "done"}) =>
             LET queued == QueuedVertices(transition_queue)
                 after == QueuedVertices(transition_queue')
                 kept == IF transition_queue' = transition_queue
                         THEN Len(queued) ELSE Len(queued) - 1
                 added == SubSeq(after, kept + 1, Len(after))
             IN  /\ covered_vertices \subseteq covered_vertices'
                 /\ Len(after) >= kept
                 /\ SubSeq(after, 1, kept)
                        = SubSeq(queued, Len(queued) - kept + 1, Len(queued))
                 /\ NoRepetition(added)
                 /\ SeqToSet(added) = covered_vertices' \ covered_vertices]_vars

\* in the graph of graph_nontrivial_bfs the traversal from 0 has visited 0
\* and holds 1, 2 and 3 in its queue, with 4 not yet covered
C33_Witness ==
    /\ pc = "loop"
    /\ script.edges = TestEdges
    /\ source = 0
    /\ Visited = <<0>>
    /\ QueuedVertices(transition_queue) = <<1, 2, 3>>
    /\ covered_vertices = {0, 1, 2, 3}

\* C36: should_terminate is polled after reset and before the source is
\* dequeued: a visitor that answers true from its reset on gets no
\* visit_vertex and no visit_edge call, the source stays in the queue and
\* the call returns; in general the visitor is shown no more vertices than
\* it takes to make it answer true.
C36_PolledBeforeSource ==
    (pc \in {"loop", "done"} /\ visitor.kind = "BoundedVisitor") =>
        /\ Len(Visited) <= visitor.limit
        /\ visitor.seen = Len(Visited)
        /\ visitor.limit = 0 =>
               /\ trace = <<[call |-> "reset"]>>
               /\ transition_queue = <<[edge |-> None, vertex |-> source]>>
               /\ covered_vertices = {source}

\* a traversal with a visitor that stops from its reset on has returned on
\* a graph where the source has an edge to another vertex
C36_Witness ==
    /\ pc = "done"
    /\ visitor.kind = "BoundedVisitor"
    /\ visitor.limit = 0
    /\ script.edges /= <<>>
    /\ script.edges[1] = <<source, 1 - source>>
    /\ trace = <<[call |-> "reset"]>>

\* C29: on every finite graph, with cycles, self-loops or parallel edges,
\* the traversal terminates: each vertex is dequeued at most once, and the
\* loop ends and the call returns, by exhausting the queue after visiting
\* all that the source reaches, or by an early true from should_terminate()
C29_Terminates ==
    /\ []DequeuedOnce
    /\ (pc = "loop") ~> (pc = "done")

\* a traversal over a cycle of two vertices has emptied its queue
C29_Witness ==
    /\ pc = "done"
    /\ script.edges = << <<0, 1>>, <<1, 0>> >>
    /\ visitor.kind = "CountingGraphVisitor"
    /\ Visited = <<0, 1>>
    /\ transition_queue = <<>>

\* an add_edge(u, x, _) with x no vertex has been performed
Dangling(u) ==
    \E i \in DOMAIN Performed :
        Performed[i][1] = u /\ Performed[i][2] \notin DOMAIN bgraph.vertices

\* reads of u's forward list fail exactly when it holds a dangling entry;
\* get_vertex and get_edge of the graph's elements succeed
ReadsFailFast ==
    Building =>
        /\ \A u \in 0..script.nv :
               IF Dangling(u)
               THEN /\ out_neighbours_of(bgraph, u).res = "Panic"
                    /\ neighbours_of(bgraph, u).res = "Panic"
                    /\ \A b \in 0..script.nv :
                           /\ is_adjacent(bgraph, u, b).res = "Panic"
                           /\ get_edge_between(bgraph, u, b).res = "Panic"
               ELSE /\ out_neighbours_of(bgraph, u).res = "Ok"
                    /\ neighbours_of(bgraph, u).res = "Ok"
                    /\ \A b \in 0..script.nv :
                           is_adjacent(bgraph, u, b).res = "Ok"
        /\ \A v \in DOMAIN bgraph.vertices : get_vertex(bgraph, v).res = "Ok"
        /\ \A e \in DOMAIN bgraph.edges : get_edge(bgraph, e).res = "Ok"

\* C30: after add_edge(u, x, _) with x no vertex, out_neighbours_of(u),
\* neighbours_of(u), is_adjacent(u, any) and get_edge_between(u, any) fail
\* fatally, and so does a traversal at the moment it dequeues x, before any
\* visitor call for x; get_vertex, get_edge and out_neighbours_of of the
\* vertices without a dangling entry still succeed
C30_DanglingEdgeFailsFast ==
    /\ []ReadsFailFast
    /\ [][(/\ pc = "loop"
           /\ LoopCondition(visitor, transition_queue)) =>
              IF Head(transition_queue).vertex \in DOMAIN bgraph.vertices
              THEN pc' = "loop"
              ELSE /\ pc' = "panicked"
                   /\ trace' = trace
                   /\ visitor' = visitor]_vars

\* a traversal has visited its source and failed on dequeuing the dangling
\* target, in a graph where another vertex has resolvable out-neighbours
C30_Witness ==
    /\ pc = "panicked"
    /\ Len(Visited) >= 1
    /\ \E u, v \in DOMAIN bgraph.vertices :
           /\ Dangling(u)
           /\ ~Dangling(v)
           /\ out_neighbours_of(bgraph, v).res = "Ok"
           /\ out_neighbours_of(bgraph, v).list /= <<>>

====
